---- MODULE Spec2Model ----
(***************************************************************************)
(* Model of the frame lifecycle and resource-ownership subsystem of        *)
(* vk-renderer: util::TaskStack (the teardown registry) and the            *)
(* Renderer's Init / Draw / Shutdown with an asynchronous GPU.             *)
(***************************************************************************)
EXTENDS Integers, Sequences, FiniteSets, TLC

(***************************************************************************)
(* Bounds of the model.                                                    *)
(***************************************************************************)
\* number of Push calls a client of a stand-alone TaskStack makes
MaxPushes == 5
\* number of Draw calls the main loop makes before it quits
MaxDraws == 4
\* number of Shutdown calls a client makes
MaxShutdowns == 2
\* number of presentable images of the swapchain
NumSwapImages == 2
\* number of unchecked calls of one Init that fail
MaxSilentFailures == 1
\* number of uploads (Texture constructions) a client makes
MaxUploads == 3
\* number of Texture objects a client declares
MaxTextures == 3
\* number of images CreateFromLocalBuffer creates
MaxImages == 2
\* number of vertices and of indices of a mesh handed to UploadMesh
MaxMeshVertices == 2
MaxMeshIndices == 10
\* the width in bits of size_t and VkDeviceSize in the model
SizeBits == 9
\* CreateMaterial and meshes_[name] = m calls in one run of the registries
MaxRegistrations == 2
\* pixels of a source image
MaxPixels == 3
\* ToggleShader calls and Draw calls of the earlier renderer
MaxToggles == 7
MaxToggleDraws == 3
\* Draw calls whose semaphores are followed
MaxSyncDraws == 3
\* renderables of one traversal, and the materials they choose from
MaxRenderables == 3
MaxMaterials == 2
\* Draws whose scene-parameter offset is followed
MaxSceneFrames == 12
\* physical devices vkEnumeratePhysicalDevices reports
MaxDevices == 2
\* meshes in the model file LoadFromFile reads
MaxModelMeshes == 4
\* TaskStack objects that move into one another, and the actions pushed
MaxStacks == 2
MaxMovePushes == 3
\* width of the image counts of a surface (uint32_t in the program)
ImageCountBits == 4

(***************************************************************************)
(* Program constants.                                                      *)
(***************************************************************************)
kFrameOverlap == 2
Slots == 0 .. (kFrameOverlap - 1)
\* sizeof(Vertex): three glm::vec3 of three 4-byte floats
sizeofVertex == 36
\* sizeof(uint32_t)
sizeofIndex == 4

VARIABLES
  \* ---- a stand-alone util::TaskStack and its client
  tasks_,          \* TaskStack::tasks_ of a stand-alone TaskStack
  calls,           \* every registered action invoked so far, in order
  nextAction,      \* identity of the next closure handed to Push
  registered,      \* history: actions pushed since the last Flush
  flushRegistered, \* history: `registered' when the last Flush began
  flushInvoked,    \* history: the invocations made by the last Flush
  lastOp,          \* history: the last TaskStack operation
  prevOp,          \* history: the operation before it
  \* ---- the process running main() with the global Renderer
  pc,              \* position of the CPU thread
  initStep,        \* index of the next creation step of Init
  initialized_,    \* Renderer::initialized_
  framenumber_,    \* Renderer::framenumber_
  frameSlot,       \* Draw's local `frame' (index into frames_)
  deletion_stack_, \* Renderer::deletion_stack_ (its tasks_)
  live,            \* the GPU objects created and not yet destroyed
  initReturn,      \* what Init returned to main(): "none" before it returns
  failedSteps,     \* the objects whose creation call in Init failed
  \* ---- Vulkan object state
  render_fence,    \* frames_[i].render_fence: "signaled" / "unsignaled"
  command_buffer,  \* frames_[i].command_buffer: its lifecycle state
  cmdReads,        \* buffer regions the commands recorded in slot i read
  gpuPending,      \* slot i's submission is executing on the GPU
  \* ---- history of the running / last Draw
  draws,           \* number of Draw calls started
  drawTrace,       \* <<step, result>> of every step the Draw executed
  frameAtEntry,    \* framenumber_ when the Draw was entered
  faulted,         \* an API call of the Draw failed though it could succeed
  prevFailed,      \* the Draw before this one returned early
  fenceObserved,   \* the Draw's fence wait returned VK_SUCCESS
  cpuWrites,       \* buffer regions DrawObjects has just written
  okSlots,         \* slot of every Draw all of whose steps succeeded
  \* ---- history of the running / last Shutdown
  sdSlot,          \* Shutdown's loop variable i
  shutdownCalls,   \* number of Shutdown calls started
  sdObserved,      \* slots whose fence this Shutdown observed signaled
  sdWaitFailed,    \* a fence wait of this Shutdown failed
  sdCallsBefore,   \* Len(calls) when this Shutdown was entered
  invalidUse,      \* an API call was handed a handle that is not live
  \* ---- a QueueSubmitter, its UploadContext and a Texture under construction
  upPc,            \* position of the thread in Texture / SubmitImmediate
  upload_fence,    \* upload_context_.fence: "signaled" / "unsignaled"
  upload_command_buffer, \* upload_context_.command_buffer: lifecycle state
  uploadPending,   \* the uploads whose submission is executing on the GPU
  uploads,         \* number of uploads started; the current one's identity
  uploadTrace,     \* <<step, result>> of every step of this SubmitImmediate
  upWaitResult,    \* what this SubmitImmediate's vkWaitForFences returned
  stagingLive,     \* the uploads whose staging buffer exists
  upReturned,      \* the uploads whose SubmitImmediate has returned
  upResetBusy,     \* the fence or the pool was reset while an upload executed
  uploadCalls,     \* history: the calls of the current Texture construction
  \* ---- Texture objects of a client and the images behind them
  textures,        \* per Texture object: lifetime and data members
  imageDestroys,   \* per image: number of vmaDestroyImage calls on it
  viewDestroys,    \* per image view: number of vkDestroyImageView calls
  nextImage,       \* identity of the next image created
  texPc,           \* "run", or "Crashed"
  \* ---- a Mesh handed to Renderer::UploadMesh
  mesh,            \* Mesh::vertices and Mesh::indices
  meshPc,          \* "call", "true" / "false" (returned), "Aborted", "Crashed"
  vertex_buffer,   \* contents of mesh.vertex_buffer, "none" when not created
  index_buffer,    \* contents of mesh.index_buffer, "none" when not created
  copiesDone,      \* every submitted copy finished before UploadMesh returned
  meshDraw,        \* the draw call DrawObjects records for the mesh
  stagingBuffers,  \* the staging buffers UploadMesh created, with their use
  \* Renderer::GetAlignedBufferSize
  original_size,   \* the argument
  min_alignment,   \* limits.minUniformBufferOffsetAlignment of the device
  aligned_size,    \* the local the function returns
  alignPc,         \* "call" before the call, "returned" after it
  \* the Renderer's registries
  materials_,      \* name -> Material
  meshes_,         \* name -> Mesh
  registered_,     \* history: the registrations made, in order
  registryCall,    \* history: the last call, its result, the maps before it
  \* LoadTexture
  image,           \* the tinygltf::Image: width, height, component, image
  buffer,          \* the bytes handed to Texture::CreateFromLocalBuffer
  buffer_size,     \* their number
  staging_buffer,  \* the Texture constructor's staging buffer
  loadPc,          \* "call", "returned", "Aborted" or "Crashed"
  \* the earlier renderer's shader selection
  selected_shader_,
  toggles,         \* history: number of ToggleShader calls
  toggleDraws,     \* history: per Draw, the selection and what it recorded
  \* the semaphores and fences of Renderer::Draw
  syncPc,          \* the call Draw makes next, or "idle" between Draws
  syncDraws,       \* number of Draw calls begun; the current Draw's identity
  syncFramenumber, \* framenumber_
  syncImage,       \* swapchain_image_index of the current Draw
  semaphores,      \* per semaphore: "unsignaled" or "signaled"
  syncFences,      \* per frame slot: state of render_fence
  gpuOps,          \* acquisitions, submissions, presentations requested
  gpuEvents,       \* history: what device and presentation engine have done
  \* the traversal of Renderer::DrawObjects
  renderables_,    \* the RenderObjects: material and mesh of each
  objectIndex,     \* the loop variable i
  last_material,
  last_mesh,
  commands,        \* the commands recorded so far
  object_ssbo,     \* the mapped object buffer: one model matrix per record
  traversalPc,     \* "object data" or "commands": the loop DrawObjects is at
  \* the scene-parameter buffer of InitDescriptors and DrawObjects
  minUniformBufferOffsetAlignment,  \* gpu_properties_.limits
  scene_parameters_buffer_size,
  uniform_offsets, \* frame_index -> the dynamic offset last bound for it
  sceneFramenumber,
  scenePc,         \* "InitDescriptors" or "Draw"
  \* device selection in Renderer::Init
  physical_devices,       \* what the instance reports of each device
  maybe_selected_device,  \* index SelectDevice returns, or NoDevice
  selectPc,               \* "call", "return false" or "selected"
  \* LoadMeshes and InitScene
  shiba_model_,    \* the number of meshes of the loaded model
  loadedMaterials, \* materials_ as InitPipeline leaves it
  loadedMeshes,    \* meshes_ as LoadMeshes fills it
  sceneObjects,    \* renderables_ as InitScene fills it
  populateCount,   \* the loop variable of the loop the code is in
  populatePc,      \* the statement the code is at
  drawAsserts,     \* what the assertions of the first Draw have done
  \* TaskStack objects and their move operations
  taskStacks,      \* per object: its lifetime and its tasks_
  movePushed,      \* the number of actions pushed so far
  moveInvoked,     \* history: the actions invoked, in order
  movePc,          \* "run", or "Crashed" once the process has ended
  \* the swapchain image count of Init
  minImageCount,   \* capabilities.minImageCount of the selected device
  maxImageCount,   \* capabilities.maxImageCount, 0 for no upper limit
  image_count,     \* swapchain_info.minImageCount as requested
  imageCountPc     \* "clamp", "requested" or "Aborted"

stackVars == <<tasks_, calls, nextAction, registered, flushRegistered,
               flushInvoked, lastOp, prevOp>>

stackHistory == <<tasks_, nextAction, registered, flushRegistered,
                  flushInvoked, lastOp, prevOp>>

mainVars == <<pc, initStep, initialized_, framenumber_, frameSlot,
              deletion_stack_, live>>

gpuVars == <<render_fence, command_buffer, cmdReads, gpuPending>>

drawVars == <<draws, drawTrace, frameAtEntry, faulted, prevFailed,
              fenceObserved, cpuWrites, okSlots>>

sdVars == <<sdSlot, shutdownCalls, sdObserved, sdWaitFailed, sdCallsBefore,
            invalidUse>>

initVars == <<initReturn, failedSteps>>

uploadVars == <<upPc, upload_fence, upload_command_buffer, uploadPending,
                uploads, uploadTrace, upWaitResult, stagingLive, upReturned,
                upResetBusy, uploadCalls>>

textureVars == <<textures, imageDestroys, viewDestroys, nextImage, texPc>>

meshVars == <<mesh, meshPc, vertex_buffer, index_buffer, copiesDone,
              meshDraw, stagingBuffers>>

alignVars == <<original_size, min_alignment, aligned_size, alignPc>>

registryVars == <<materials_, meshes_, registered_, registryCall>>

loadVars == <<image, buffer, buffer_size, staging_buffer, loadPc>>

toggleVars == <<selected_shader_, toggles, toggleDraws>>

syncVars == <<syncPc, syncDraws, syncFramenumber, syncImage, semaphores,
              syncFences, gpuOps, gpuEvents>>

traversalVars == <<renderables_, objectIndex, last_material, last_mesh,
                   commands, object_ssbo, traversalPc>>

sceneVars == <<minUniformBufferOffsetAlignment, scene_parameters_buffer_size,
               uniform_offsets, sceneFramenumber, scenePc>>

selectVars == <<physical_devices, maybe_selected_device, selectPc>>

populateVars == <<shiba_model_, loadedMaterials, loadedMeshes, sceneObjects,
                  populateCount, populatePc, drawAsserts>>

moveVars == <<taskStacks, movePushed, moveInvoked, movePc>>

imageCountVars == <<minImageCount, maxImageCount, image_count, imageCountPc>>

\* the state of the stand-alone components that follow
extraVars == <<meshVars, alignVars, registryVars, loadVars, toggleVars,
               syncVars, traversalVars, sceneVars, selectVars, populateVars,
               moveVars, imageCountVars>>

\* what the actions of one component leave alone
exceptMesh == <<alignVars, registryVars, loadVars, toggleVars, syncVars,
                traversalVars, sceneVars, selectVars, populateVars, moveVars,
                imageCountVars>>

exceptAlign == <<meshVars, registryVars, loadVars, toggleVars, syncVars,
                 traversalVars, sceneVars, selectVars, populateVars, moveVars,
                 imageCountVars>>

exceptRegistry == <<meshVars, alignVars, loadVars, toggleVars, syncVars,
                    traversalVars, sceneVars, selectVars, populateVars,
                    moveVars, imageCountVars>>

exceptLoad == <<meshVars, alignVars, registryVars, toggleVars, syncVars,
                traversalVars, sceneVars, selectVars, populateVars, moveVars,
                imageCountVars>>

exceptToggle == <<meshVars, alignVars, registryVars, loadVars, syncVars,
                  traversalVars, sceneVars, selectVars, populateVars,
                  moveVars, imageCountVars>>

exceptSync == <<meshVars, alignVars, registryVars, loadVars, toggleVars,
                traversalVars, sceneVars, selectVars, populateVars, moveVars,
                imageCountVars>>

exceptTraversal == <<meshVars, alignVars, registryVars, loadVars, toggleVars,
                     syncVars, sceneVars, selectVars, populateVars, moveVars,
                     imageCountVars>>

exceptScene == <<meshVars, alignVars, registryVars, loadVars, toggleVars,
                 syncVars, traversalVars, selectVars, populateVars, moveVars,
                 imageCountVars>>

exceptSelect == <<meshVars, alignVars, registryVars, loadVars, toggleVars,
                  syncVars, traversalVars, sceneVars, populateVars, moveVars,
                  imageCountVars>>

exceptPopulate == <<meshVars, alignVars, registryVars, loadVars, toggleVars,
                    syncVars, traversalVars, sceneVars, selectVars, moveVars,
                    imageCountVars>>

exceptMove == <<meshVars, alignVars, registryVars, loadVars, toggleVars,
                syncVars, traversalVars, sceneVars, selectVars, populateVars,
                imageCountVars>>

exceptImageCount == <<meshVars, alignVars, registryVars, loadVars, toggleVars,
                      syncVars, traversalVars, sceneVars, selectVars,
                      populateVars, moveVars>>

otherVars == <<uploadVars, textureVars, extraVars>>

rendererVars == <<mainVars, gpuVars, drawVars, sdVars, initVars>>

vars == <<stackVars, rendererVars, otherVars>>

\* everything but extraVars
baseVars == <<stackVars, rendererVars, uploadVars, textureVars>>

(***************************************************************************)
(* util::TaskStack                                                         *)
(***************************************************************************)

\* tasks_.push_back(function)
Push(tasks, function) == Append(tasks, function)

\* the loop of Flush: `it' runs from rbegin() to rend(); position `it' counts
\* the elements not yet visited, so *it is tasks[it]
RECURSIVE FlushLoop_Forward(_, _, _)
FlushLoop_Forward(tasks, it, log) ==
  IF it = 0 THEN log
  ELSE FlushLoop_Forward(tasks, it - 1,
                         Append(log, tasks[Len(tasks) + 1 - it]))

RECURSIVE FlushLoop(_, _, _)
FlushLoop(tasks, it, log) ==
  IF it = 0 THEN log
  ELSE FlushLoop(tasks, it - 1, Append(log, tasks[it]))

\* the invocations one Flush makes, in order
FlushInvocations(tasks) == FlushLoop(tasks, Len(tasks), <<>>)

FlushRemainder_NoClear(tasks) == tasks

\* tasks_.clear() at the end of Flush
FlushRemainder(tasks) == <<>>

(***************************************************************************)
(* Renderer::Init: the creation steps, in source order.  A step names the  *)
(* object its call creates, what the code does when the call fails, the    *)
(* objects destroyed by the action it pushes on deletion_stack_ ({} when   *)
(* it pushes none) and the objects it destroys itself.                     *)
(*   onFail = "return": if (call != VK_SUCCESS) return false;              *)
(*   onFail = "ignore": the result is not looked at, Init goes on          *)
(*   onFail = "abort":  the callee calls abort()                           *)
(*   onFail = "never":  the step makes no fallible call                    *)
(***************************************************************************)
Obj(name, i) == <<name, i>>

StepOf(obj, creates, onFail, push, frees) ==
  [obj |-> obj, creates |-> creates, onFail |-> onFail, push |-> push,
   frees |-> frees]

Step(obj, creates, checked, push) ==
  StepOf(obj, creates, IF checked THEN "return" ELSE "ignore", push, {})

\* a checked creation whose destructor is pushed right after it
Created(name, i) == Step(Obj(name, i), TRUE, TRUE, {Obj(name, i)})

\* a creation whose result the code does not look at
Unchecked(name, i, push) == Step(Obj(name, i), TRUE, FALSE, push)

\* a checked call that registers nothing
Checked(name, i, creates) == Step(Obj(name, i), creates, TRUE, {})

\* a call into CreateBuffer or SubmitImmediate, which abort() on failure
Aborting(name, i, creates, push) ==
  StepOf(Obj(name, i), creates, "abort", push, {})

\* deletion_stack_.Push alone
Registers(name, push) == StepOf(Obj(name, 0), FALSE, "never", push, {})

\* vkDestroy... inside Init
Releases(name, frees) == StepOf(Obj(name, 0), FALSE, "never", {}, frees)

\* instance .. depth image view
InitDeviceSteps ==
  << Created("instance", 0),
     Created("surface", 0),
     Checked("device_count", 0, FALSE),
     Checked("SelectDevice", 0, FALSE),
     Created("device", 0),
     Unchecked("allocator", 0, {Obj("allocator", 0)}),
     Created("swapchain", 0),
     Unchecked("depth_image", 0, {Obj("depth_image", 0)}),
     Created("depth_image_view", 0) >>

\* one image view per swapchain image
InitImageViewSteps ==
  [j \in 1 .. NumSwapImages |-> Created("swapchain_image_view", j - 1)]

\* per frame slot: command pool, then command buffer
InitCommandSteps ==
  [j \in 1 .. 2 * kFrameOverlap |->
     IF j % 2 = 1 THEN Created("command_pool", (j - 1) \div 2)
     ELSE Checked("command_buffer", (j - 1) \div 2, TRUE)]

InitUploadCommandSteps ==
  << Created("upload_command_pool", 0),
     Checked("upload_command_buffer", 0, TRUE),
     Created("renderpass", 0) >>

\* one framebuffer per swapchain image
InitFramebufferSteps ==
  [j \in 1 .. NumSwapImages |-> Created("framebuffer", j - 1)]

\* per frame slot: fence (created signaled), render and present semaphore
InitSyncSteps ==
  [j \in 1 .. 3 * kFrameOverlap |->
     CASE j % 3 = 1 -> Created("render_fence", (j - 1) \div 3)
       [] j % 3 = 2 -> Created("render_semaphore", (j - 1) \div 3)
       [] OTHER     -> Created("present_semaphore", (j - 1) \div 3)]

InitUploadFenceSteps == << Created("upload_fence", 0) >>

\* InitDescriptors: no result is checked; the pool and the two layouts are
\* destroyed by one action, pushed last; the buffers come from CreateBuffer
InitDescriptorHeadSteps ==
  << Unchecked("descriptor_pool", 0, {}),
     Unchecked("global_set_layout", 0, {}),
     Unchecked("object_set_layout", 0, {}),
     Aborting("scene_parameters_buffer", 0, TRUE,
              {Obj("scene_parameters_buffer", 0)}) >>

InitDescriptorFrameSteps ==
  [j \in 1 .. 2 * kFrameOverlap |->
     IF j % 2 = 1
       THEN Aborting("object_buffer", (j - 1) \div 2, TRUE,
                     {Obj("object_buffer", (j - 1) \div 2)})
       ELSE Aborting("camera_buffer", (j - 1) \div 2, TRUE,
                     {Obj("camera_buffer", (j - 1) \div 2)})]

InitDescriptorTailSteps ==
  << Registers("descriptor_teardown",
               {Obj("global_set_layout", 0), Obj("object_set_layout", 0),
                Obj("descriptor_pool", 0)}) >>

InitPipelineSteps_PipelineFirst ==
  << Checked("mesh_vert", 0, TRUE),
     Checked("mesh_frag", 0, TRUE),
     Created("mesh_pipeline", 0),
     Created("mesh_pipeline_layout", 0),
     Releases("shader_modules", {Obj("mesh_vert", 0), Obj("mesh_frag", 0)}) >>

\* InitPipeline: layout, the two shader modules, the pipeline, and the
\* vkDestroyShaderModule calls that follow the pipeline's registration
InitPipelineSteps ==
  << Created("mesh_pipeline_layout", 0),
     Checked("mesh_vert", 0, TRUE),
     Checked("mesh_frag", 0, TRUE),
     Created("mesh_pipeline", 0),
     Releases("shader_modules", {Obj("mesh_vert", 0), Obj("mesh_frag", 0)}) >>

\* UploadMesh: staging buffer (destroyed by the local TaskStack when
\* UploadMesh returns), vertex buffer, copy; for an indexed mesh the same
\* for the indices
UploadMeshSteps(name, indexed) ==
  << Checked(name \o "_staging_buffer", 0, FALSE),
     Created(name \o "_vertex_buffer", 0),
     Aborting(name \o "_vertex_copy", 0, FALSE, {}) >> \o
  (IF indexed
     THEN << Checked(name \o "_index_staging_buffer", 0, FALSE),
             Created(name \o "_index_buffer", 0),
             Aborting(name \o "_index_copy", 0, FALSE, {}) >>
     ELSE << >>)

\* the Texture constructor, called by LoadFromFile for the model's texture
TextureSteps ==
  << Aborting("texture_staging_buffer", 0, FALSE, {}),
     Unchecked("texture_image", 0, {}),
     Aborting("texture_upload", 0, FALSE, {}),
     Unchecked("texture_image_view", 0, {}) >>

\* LoadMeshes: UploadMesh of the triangle (no indices), LoadFromFile of the
\* model and its texture, UploadMesh of the model's mesh (indexed), the
\* registration of the textures' release
LoadMeshesSteps ==
  UploadMeshSteps("triangle", FALSE) \o
  << Checked("shiba_model", 0, FALSE) >> \o
  TextureSteps \o
  UploadMeshSteps("shiba", TRUE) \o
  << Registers("textures",
               {Obj("texture_image_view", 0), Obj("texture_image", 0)}) >>

\* the sync objects ahead of the render pass
InitSteps_SyncBeforeRenderPass ==
  InitDeviceSteps \o InitImageViewSteps \o InitCommandSteps \o
  InitSyncSteps \o InitUploadCommandSteps \o InitFramebufferSteps \o
  InitUploadFenceSteps \o InitDescriptorHeadSteps \o
  InitDescriptorFrameSteps \o InitDescriptorTailSteps \o InitPipelineSteps \o
  LoadMeshesSteps

InitSteps ==
  InitDeviceSteps \o InitImageViewSteps \o InitCommandSteps \o
  InitUploadCommandSteps \o InitFramebufferSteps \o InitSyncSteps \o
  InitUploadFenceSteps \o InitDescriptorHeadSteps \o
  InitDescriptorFrameSteps \o InitDescriptorTailSteps \o InitPipelineSteps \o
  LoadMeshesSteps

(***************************************************************************)
(* Initial state: the global Renderer is constructed, main() has not yet   *)
(* called Init; a stand-alone TaskStack is empty.                          *)
(***************************************************************************)
InitStackVars ==
  /\ tasks_ = <<>>
  /\ calls = <<>>
  /\ nextAction = 1
  /\ registered = <<>>
  /\ flushRegistered = <<>>
  /\ flushInvoked = <<>>
  /\ lastOp = "none"
  /\ prevOp = "none"

InitRendererVars ==
  /\ pc = "Init"
  /\ initStep = 1
  /\ initialized_ = FALSE
  /\ framenumber_ = 0
  /\ frameSlot = 0
  /\ deletion_stack_ = <<>>
  /\ live = {}
  /\ initReturn = "none"
  /\ failedSteps = {}
  /\ render_fence = [i \in Slots |-> "signaled"]
  /\ command_buffer = [i \in Slots |-> "initial"]
  /\ cmdReads = [i \in Slots |-> {}]
  /\ gpuPending = [i \in Slots |-> FALSE]
  /\ draws = 0
  /\ drawTrace = <<>>
  /\ frameAtEntry = 0
  /\ faulted = FALSE
  /\ prevFailed = FALSE
  /\ fenceObserved = FALSE
  /\ cpuWrites = {}
  /\ okSlots = <<>>
  /\ sdSlot = 0
  /\ shutdownCalls = 0
  /\ sdObserved = {}
  /\ sdWaitFailed = FALSE
  /\ sdCallsBefore = 0
  /\ invalidUse = FALSE

\* the UploadContext as Renderer::Init builds it: the fence is created
\* without VK_FENCE_CREATE_SIGNALED_BIT
InitUploadVars ==
  /\ upPc = "idle"
  /\ upload_fence = "unsignaled"
  /\ upload_command_buffer = "initial"
  /\ uploadPending = {}
  /\ uploads = 0
  /\ uploadTrace = <<>>
  /\ upWaitResult = "none"
  /\ stagingLive = {}
  /\ upReturned = {}
  /\ upResetBusy = FALSE
  /\ uploadCalls = <<>>

TexObjs == 1 .. MaxTextures

ImageIds == 1 .. MaxImages

\* VK_NULL_HANDLE / nullptr
Null == 0

\* no Texture object is constructed yet
InitTextureVars ==
  /\ textures = [t \in TexObjs |->
                   [life |-> "none", device_ |-> Null, allocator_ |-> Null,
                    image_ |-> Null, image_view_ |-> Null]]
  /\ imageDestroys = [g \in ImageIds |-> 0]
  /\ viewDestroys = [g \in ImageIds |-> 0]
  /\ nextImage = 1
  /\ texPc = "run"

InitBase ==
  InitStackVars /\ InitRendererVars /\ InitUploadVars /\ InitTextureVars

\* a Mesh before UploadMesh: no buffer exists
MeshVarsOf(vertices, indices) ==
  /\ mesh = [vertices |-> vertices, indices |-> indices]
  /\ meshPc = "call"
  /\ vertex_buffer = "none"
  /\ index_buffer = "none"
  /\ copiesDone = TRUE
  /\ meshDraw = "none"
  /\ stagingBuffers = <<>>

\* LoadMeshes: triangle_mesh_ has three vertices and no indices
IdleMeshVars == MeshVarsOf(<<1, 2, 3>>, <<>>)

\* size_t aligned_size = original_size, before the call
AlignVarsOf(size, alignment) ==
  /\ original_size = size
  /\ min_alignment = alignment
  /\ aligned_size = size
  /\ alignPc = "call"

IdleAlignVars == AlignVarsOf(0, 0)

\* the maps' default constructors
EmptyMap == [name \in {} |-> Null]

InitRegistryVars ==
  /\ materials_ = EmptyMap
  /\ meshes_ = EmptyMap
  /\ registered_ = <<>>
  /\ registryCall = [op |-> "none"]

\* unsigned char* buffer = nullptr; size_t buffer_size = 0;
LoadVarsOf(img) ==
  /\ image = img
  /\ buffer = <<>>
  /\ buffer_size = 0
  /\ staging_buffer = [size |-> 0, data |-> <<>>]
  /\ loadPc = "call"

IdleLoadVars ==
  LoadVarsOf([width |-> 1, height |-> 1, component |-> 4,
              image |-> <<0, 0, 0, 0>>])

\* the member's initial value
InitialSelectedShader == 0

InitToggleVars ==
  /\ selected_shader_ = InitialSelectedShader
  /\ toggles = 0
  /\ toggleDraws = <<>>

\* frames_[i].present_semaphore, frames_[i].render_semaphore
PresentSemaphore(slot) == <<"present_semaphore", slot>>

RenderSemaphore(slot) == <<"render_semaphore", slot>>

FrameSemaphores ==
  {PresentSemaphore(slot) : slot \in Slots}
    \cup {RenderSemaphore(slot) : slot \in Slots}

\* after Init: semaphores unsignaled, fences created signaled
InitSyncVars ==
  /\ syncPc = "idle"
  /\ syncDraws = 0
  /\ syncFramenumber = 0
  /\ syncImage = 0
  /\ semaphores = [s \in FrameSemaphores |-> "unsignaled"]
  /\ syncFences = [slot \in Slots |-> "signaled"]
  /\ gpuOps = <<>>
  /\ gpuEvents = <<>>

\* Mesh* last_mesh = nullptr; Material* last_material = nullptr; i = 0
TraversalVarsOf(objects) ==
  /\ renderables_ = objects
  /\ objectIndex = 0
  /\ last_material = Null
  /\ last_mesh = Null
  /\ commands = <<>>
  /\ object_ssbo = [i \in 1 .. Len(objects) |-> Null]
  /\ traversalPc = "object data"

IdleTraversalVars == TraversalVarsOf(<<>>)

\* the scene buffer before InitDescriptors, on a device of the given limit
SceneVarsOf(alignment) ==
  /\ minUniformBufferOffsetAlignment = alignment
  /\ scene_parameters_buffer_size = 0
  /\ uniform_offsets = EmptyMap
  /\ sceneFramenumber = 0
  /\ scenePc = "InitDescriptors"

IdleSceneVars == SceneVarsOf(1)

\* std::nullopt of SelectDevice
NoDevice == 0 - 1

\* Init is about to call SelectDevice(devices, surface_)
SelectVarsOf(devices) ==
  /\ physical_devices = devices
  /\ maybe_selected_device = NoDevice
  /\ selectPc = "call"

IdleSelectVars == SelectVarsOf(<<>>)

\* Init is about to call InitPipeline; the model file holds n meshes
PopulateVarsOf(n) ==
  /\ shiba_model_ = n
  /\ loadedMaterials = EmptyMap
  /\ loadedMeshes = EmptyMap
  /\ sceneObjects = <<>>
  /\ populateCount = 0
  /\ populatePc = "InitPipeline"
  /\ drawAsserts = "none"

IdlePopulateVars == PopulateVarsOf(0)

\* Init is about to compute the image count for a surface of these limits
ImageCountVarsOf(lo, hi) ==
  /\ minImageCount = lo
  /\ maxImageCount = hi
  /\ image_count = 0
  /\ imageCountPc = "clamp"

IdleImageCountVars == ImageCountVarsOf(1, 1)

\* no TaskStack of the move scenario is constructed yet
InitMoveVars ==
  /\ taskStacks = [s \in 1 .. MaxStacks |-> [life |-> "none", tasks_ |-> <<>>]]
  /\ movePushed = 0
  /\ moveInvoked = <<>>
  /\ movePc = "run"

\* the stand-alone components as the program has them; a specification of
\* one component draws that component's inputs itself
IdleExtraVars(drawn) ==
  /\ IF drawn = "mesh" THEN TRUE ELSE IdleMeshVars
  /\ IF drawn = "align" THEN TRUE ELSE IdleAlignVars
  /\ InitRegistryVars
  /\ IF drawn = "load" THEN TRUE ELSE IdleLoadVars
  /\ InitToggleVars
  /\ InitSyncVars
  /\ IF drawn = "traversal" THEN TRUE ELSE IdleTraversalVars
  /\ IF drawn = "scene" THEN TRUE ELSE IdleSceneVars
  /\ IF drawn = "select" THEN TRUE ELSE IdleSelectVars
  /\ IF drawn = "populate" THEN TRUE ELSE IdlePopulateVars
  /\ InitMoveVars
  /\ IF drawn = "image count" THEN TRUE ELSE IdleImageCountVars

Init == InitBase /\ IdleExtraVars("none")

(***************************************************************************)
(* Renderer::Init, one creation step at a time.                            *)
(***************************************************************************)
\* the outcomes of a step's call
InitOutcomes(s, failed) ==
  CASE s.onFail = "never"  -> {"ok"}
    [] s.onFail = "ignore" ->
         IF Cardinality(failed) < MaxSilentFailures THEN {"ok", "failed"}
         ELSE {"ok"}
    [] OTHER               -> {"ok", "failed"}

\* where the process is after a step: `return false' takes main() to its
\* failure branch, abort() ends the process, anything else is the next step
InitAfter(s, outcome) ==
  CASE outcome = "ok"       -> "Init"
    [] s.onFail = "return"  -> "InitFailed"
    [] s.onFail = "abort"   -> "Aborted"
    [] OTHER                -> "Init"

InitStepAction ==
  /\ pc = "Init"
  /\ initStep <= Len(InitSteps)
  /\ LET s == InitSteps[initStep] IN
     \E outcome \in InitOutcomes(s, failedSteps) :
       /\ pc' = InitAfter(s, outcome)
       /\ failedSteps' =
            IF outcome = "ok" THEN failedSteps ELSE failedSteps \cup {s.obj}
       /\ initReturn' =
            IF InitAfter(s, outcome) = "InitFailed" THEN "false"
            ELSE initReturn
       /\ IF InitAfter(s, outcome) = "Init"
            THEN /\ live' =
                      (IF s.creates /\ outcome = "ok" THEN live \cup {s.obj}
                       ELSE live) \ s.frees
                 /\ deletion_stack_' =
                      IF s.push # {} THEN Push(deletion_stack_, s.push)
                      ELSE deletion_stack_
                 /\ initStep' = initStep + 1
            ELSE UNCHANGED <<live, deletion_stack_, initStep>>
  /\ UNCHANGED <<initialized_, framenumber_, frameSlot, gpuVars, drawVars,
                 sdVars, stackVars, otherVars>>

\* a function returning bool whose execution reaches its closing brace
\* without a return statement: the caller reads an indeterminate value, or
\* control does not come back at all
MissingReturnResults == {"true", "false", "crash"}

\* main(): if (!renderer.Init(params)) { renderer.Shutdown(); return -1; }
MainAfterInit(result) ==
  CASE result = "true"  -> "MainLoop"
    [] result = "false" -> "InitFailed"
    [] OTHER              -> "Crashed"

\* the end of Init: InitScene(); initialized_ = true; }
InitFinish ==
  /\ pc = "Init"
  /\ initStep > Len(InitSteps)
  /\ initialized_' = TRUE
  /\ \E r \in MissingReturnResults :
       /\ initReturn' = IF r = "crash" THEN initReturn ELSE r
       /\ pc' = MainAfterInit(r)
  /\ UNCHANGED <<initStep, framenumber_, frameSlot, deletion_stack_, live,
                 failedSteps, gpuVars, drawVars, sdVars, stackVars,
                 otherVars>>

(***************************************************************************)
(* Vulkan calls: the results a call can return in the current state.       *)
(***************************************************************************)
\* vkWaitForFences on a valid fence: VK_SUCCESS only once it is signaled
WaitResults(fence) ==
  (IF fence = "signaled" THEN {"VK_SUCCESS"} ELSE {"VK_TIMEOUT"})
    \cup {"VK_ERROR_DEVICE_LOST"}

\* vkGetFenceStatus on a valid fence
FenceStatusResults(fence) ==
  (IF fence = "signaled" THEN {"VK_SUCCESS"} ELSE {"VK_NOT_READY"})
    \cup {"VK_ERROR_DEVICE_LOST"}

\* a call handed a destroyed or never created handle: anything may happen
InvalidHandleResults ==
  {"VK_SUCCESS", "VK_NOT_READY", "VK_TIMEOUT", "VK_ERROR_DEVICE_LOST", "crash"}

\* vkAcquireNextImageKHR and vkQueuePresentKHR
SwapchainResults ==
  {"VK_SUCCESS", "VK_SUBOPTIMAL_KHR", "VK_ERROR_OUT_OF_DATE_KHR"}

\* any other fallible call
PlainResults == {"VK_SUCCESS", "VK_ERROR_DEVICE_LOST"}

\* the GPU finishes the submission of slot i: its fence signals
GpuComplete(i) ==
  /\ gpuPending[i]
  /\ gpuPending' = [gpuPending EXCEPT ![i] = FALSE]
  /\ render_fence' = [render_fence EXCEPT ![i] = "signaled"]
  /\ command_buffer' = [command_buffer EXCEPT ![i] = "invalid"]
  /\ UNCHANGED <<cmdReads, mainVars, drawVars, sdVars, stackVars, initVars,
                 otherVars>>

(***************************************************************************)
(* Renderer::Draw                                                          *)
(***************************************************************************)
\* the calls of Draw whose result is tested, in source order
DrawSteps ==
  << "vkWaitForFences", "vkResetFences", "vkAcquireNextImageKHR",
     "vkResetCommandBuffer", "vkBeginCommandBuffer", "DrawObjects",
     "vkEndCommandBuffer", "vkQueueSubmit", "vkQueuePresentKHR" >>

StepIndex(step) == CHOOSE j \in 1 .. Len(DrawSteps) : DrawSteps[j] = step

\* the fallible calls among them (DrawObjects returns void)
NumFallibleSteps == Len(DrawSteps) - 1

\* frames_[framenumber_ % kFrameOverlap]
GetFrame(framenumber) == framenumber % kFrameOverlap

SceneFrameIndex_Other(framenumber) == (framenumber + 1) % kFrameOverlap

\* int frame_index = framenumber_ % kFrameOverlap
SceneFrameIndex(framenumber) == framenumber % kFrameOverlap

DrawAfter_WaitIgnored(step, result) ==
  IF result # "VK_SUCCESS" /\ step # "vkWaitForFences" THEN "MainLoop"
  ELSE IF StepIndex(step) = Len(DrawSteps) THEN "MainLoop"
  ELSE DrawSteps[StepIndex(step) + 1]

DrawAfter_EndIgnored(step, result) ==
  IF result # "VK_SUCCESS" /\ step # "vkEndCommandBuffer" THEN "MainLoop"
  ELSE IF StepIndex(step) = Len(DrawSteps) THEN "MainLoop"
  ELSE DrawSteps[StepIndex(step) + 1]

\* where Draw continues after a call returned `result':
\* if (call != VK_SUCCESS) return;
DrawAfter(step, result) ==
  IF result # "VK_SUCCESS" THEN "MainLoop"
  ELSE IF StepIndex(step) = Len(DrawSteps) THEN "MainLoop"
  ELSE DrawSteps[StepIndex(step) + 1]

DrawAdvances_Always(step, result) == step = "vkQueuePresentKHR"

\* framenumber_++ is reached only past a successful vkQueuePresentKHR
DrawAdvances(step, result) ==
  step = "vkQueuePresentKHR" /\ result = "VK_SUCCESS"

\* the buffer regions DrawObjects maps and writes
DrawObjectsWrites(framenumber) ==
  { <<"camera_buffer", GetFrame(framenumber)>>,
    <<"scene_parameters", SceneFrameIndex(framenumber)>>,
    <<"object_buffer", GetFrame(framenumber)>> }

\* the buffer regions the descriptor sets bound by DrawObjects refer to
DrawObjectsBinds(framenumber) ==
  { <<"camera_buffer", GetFrame(framenumber)>>,
    <<"scene_parameters", SceneFrameIndex(framenumber)>>,
    <<"object_buffer", GetFrame(framenumber)>> }

LastDrawFailed ==
  /\ drawTrace # <<>>
  /\ drawTrace[Len(drawTrace)][2] # "VK_SUCCESS"

\* MainLoop calls Draw: FrameData& frame = GetFrame()
DrawBegin ==
  /\ pc = "MainLoop"
  /\ draws < MaxDraws
  /\ pc' = DrawSteps[1]
  /\ frameSlot' = GetFrame(framenumber_)
  /\ draws' = draws + 1
  /\ drawTrace' = <<>>
  /\ frameAtEntry' = framenumber_
  /\ faulted' = FALSE
  /\ prevFailed' = (draws > 0 /\ LastDrawFailed)
  /\ fenceObserved' = FALSE
  /\ UNCHANGED <<initStep, initialized_, framenumber_, deletion_stack_, live,
                 gpuVars, cpuWrites, okSlots, sdVars, stackVars, initVars,
                 otherVars>>

\* what every tested call of Draw does with its result
DrawCall(step, r) ==
  /\ pc = step
  /\ drawTrace' = Append(drawTrace, <<step, r>>)
  /\ pc' = DrawAfter(step, r)
  /\ framenumber_' =
       IF DrawAdvances(step, r) THEN framenumber_ + 1 ELSE framenumber_
  /\ UNCHANGED <<initStep, initialized_, frameSlot, deletion_stack_, live,
                 draws, frameAtEntry, prevFailed, sdVars, stackVars, initVars,
                 otherVars>>

DrawWaitForFences ==
  \E r \in WaitResults(render_fence[frameSlot]) :
    /\ DrawCall("vkWaitForFences", r)
    /\ fenceObserved' = (r = "VK_SUCCESS")
    /\ faulted' = (faulted \/ (r # "VK_SUCCESS" /\
                     (render_fence[frameSlot] = "signaled" \/
                      gpuPending[frameSlot])))
    /\ UNCHANGED <<gpuVars, cpuWrites, okSlots>>

DrawResetFences ==
  \E r \in PlainResults :
    /\ DrawCall("vkResetFences", r)
    /\ render_fence' =
         IF r = "VK_SUCCESS"
           THEN [render_fence EXCEPT ![frameSlot] = "unsignaled"]
           ELSE render_fence
    /\ faulted' = (faulted \/ r # "VK_SUCCESS")
    /\ UNCHANGED <<command_buffer, cmdReads, gpuPending, fenceObserved,
                   cpuWrites, okSlots>>

DrawAcquireNextImage ==
  \E r \in SwapchainResults :
    /\ DrawCall("vkAcquireNextImageKHR", r)
    /\ faulted' = (faulted \/ r # "VK_SUCCESS")
    /\ UNCHANGED <<gpuVars, fenceObserved, cpuWrites, okSlots>>

DrawResetCommandBuffer ==
  \E r \in PlainResults :
    /\ DrawCall("vkResetCommandBuffer", r)
    /\ command_buffer' =
         IF r = "VK_SUCCESS"
           THEN [command_buffer EXCEPT ![frameSlot] = "initial"]
           ELSE command_buffer
    /\ cmdReads' =
         IF r = "VK_SUCCESS" THEN [cmdReads EXCEPT ![frameSlot] = {}]
         ELSE cmdReads
    /\ faulted' = (faulted \/ r # "VK_SUCCESS")
    /\ UNCHANGED <<render_fence, gpuPending, fenceObserved, cpuWrites,
                   okSlots>>

DrawBeginCommandBuffer ==
  \E r \in PlainResults :
    /\ DrawCall("vkBeginCommandBuffer", r)
    /\ command_buffer' =
         IF r = "VK_SUCCESS"
           THEN [command_buffer EXCEPT ![frameSlot] = "recording"]
           ELSE command_buffer
    /\ faulted' = (faulted \/ r # "VK_SUCCESS")
    /\ UNCHANGED <<render_fence, cmdReads, gpuPending, fenceObserved,
                   cpuWrites, okSlots>>

\* vkCmdBeginRenderPass, DrawObjects, vkCmdEndRenderPass: all void
DrawObjects ==
  /\ pc = "DrawObjects"
  /\ pc' = DrawSteps[StepIndex("DrawObjects") + 1]
  /\ cpuWrites' = DrawObjectsWrites(framenumber_)
  /\ cmdReads' = [cmdReads EXCEPT ![frameSlot] =
                    @ \cup DrawObjectsBinds(framenumber_)]
  /\ UNCHANGED <<initStep, initialized_, framenumber_, frameSlot,
                 deletion_stack_, live, render_fence, command_buffer,
                 gpuPending>>
  /\ UNCHANGED <<draws, drawTrace, frameAtEntry, faulted, prevFailed,
                 fenceObserved, okSlots, sdVars, stackVars, initVars,
                 otherVars>>

DrawEndCommandBuffer ==
  \E r \in PlainResults :
    /\ DrawCall("vkEndCommandBuffer", r)
    /\ command_buffer' =
         IF r = "VK_SUCCESS"
           THEN [command_buffer EXCEPT ![frameSlot] = "executable"]
           ELSE command_buffer
    /\ cpuWrites' = {}
    /\ faulted' = (faulted \/ r # "VK_SUCCESS")
    /\ UNCHANGED <<render_fence, cmdReads, gpuPending, fenceObserved,
                   okSlots>>

\* vkQueueSubmit(graphics_queue_, 1, &submit, frame.render_fence)
DrawQueueSubmit ==
  \E r \in PlainResults :
    /\ DrawCall("vkQueueSubmit", r)
    /\ command_buffer' =
         IF r = "VK_SUCCESS"
           THEN [command_buffer EXCEPT ![frameSlot] = "pending"]
           ELSE command_buffer
    /\ gpuPending' =
         IF r = "VK_SUCCESS" THEN [gpuPending EXCEPT ![frameSlot] = TRUE]
         ELSE gpuPending
    /\ faulted' = (faulted \/ r # "VK_SUCCESS")
    /\ UNCHANGED <<render_fence, cmdReads, fenceObserved, cpuWrites, okSlots>>

AllSucceeded(trace) ==
  /\ Len(trace) = NumFallibleSteps
  /\ \A j \in 1 .. Len(trace) : trace[j][2] = "VK_SUCCESS"

DrawQueuePresent ==
  \E r \in SwapchainResults :
    /\ DrawCall("vkQueuePresentKHR", r)
    /\ okSlots' =
         IF AllSucceeded(Append(drawTrace, <<"vkQueuePresentKHR", r>>))
           THEN Append(okSlots, frameSlot)
           ELSE okSlots
    /\ faulted' = (faulted \/ r # "VK_SUCCESS")
    /\ UNCHANGED <<gpuVars, fenceObserved, cpuWrites>>

(***************************************************************************)
(* Renderer::Shutdown and the end of the process                           *)
(***************************************************************************)
\* the handles vkGetFenceStatus / vkWaitForFences receive for slot i
FenceHandlesValid(i) ==
  {Obj("device", 0), Obj("render_fence", i)} \subseteq live

\* vkGetFenceStatus(...) && ...: the wait is evaluated only when the status
\* converts to true, i.e. is not VK_SUCCESS (0)
ShutdownNeedsWait(status) == status # "VK_SUCCESS"

ShutdownReturnsEarly_Never(wait) == FALSE

\* ... && vkWaitForFences(...) != VK_SUCCESS) return;
ShutdownReturnsEarly(wait) == wait # "VK_SUCCESS"

\* for (int i = 0; i < kFrameOverlap; i++): the position after slot i
ShutdownNextSlot(i) == IF i + 1 < kFrameOverlap THEN "sd_status" ELSE "sd_flush"

\* the objects the actions of a registry destroy
DestroyedBy(tasks) == UNION {tasks[j] : j \in 1 .. Len(tasks)}

\* main() calls Shutdown: after the main loop quit, after Init failed, or a
\* client calls it once more after it returned
ShutdownBegin ==
  /\ pc \in {"MainLoop", "InitFailed", "AfterShutdown"}
  /\ shutdownCalls < MaxShutdowns
  /\ shutdownCalls' = shutdownCalls + 1
  /\ sdSlot' = 0
  /\ sdObserved' = {}
  /\ sdWaitFailed' = FALSE
  /\ sdCallsBefore' = Len(calls)
  /\ pc' = IF kFrameOverlap > 0 THEN "sd_status" ELSE "sd_flush"
  /\ UNCHANGED <<initStep, initialized_, framenumber_, frameSlot,
                 deletion_stack_, live, gpuVars, drawVars, invalidUse,
                 stackVars, initVars,
                 otherVars>>

\* vkGetFenceStatus(device_, frames_[i].render_fence)
ShutdownFenceStatus ==
  /\ pc = "sd_status"
  /\ \E r \in (IF FenceHandlesValid(sdSlot)
                 THEN FenceStatusResults(render_fence[sdSlot])
                 ELSE InvalidHandleResults) :
       /\ invalidUse' = (invalidUse \/ ~FenceHandlesValid(sdSlot))
       /\ IF r = "crash"
            THEN /\ pc' = "Crashed"
                 /\ UNCHANGED <<sdSlot, sdObserved>>
            ELSE IF ShutdownNeedsWait(r)
              THEN /\ pc' = "sd_wait"
                   /\ UNCHANGED <<sdSlot, sdObserved>>
              ELSE /\ pc' = ShutdownNextSlot(sdSlot)
                   /\ sdSlot' = sdSlot + 1
                   /\ sdObserved' = sdObserved \cup {sdSlot}
  /\ UNCHANGED <<initStep, initialized_, framenumber_, frameSlot,
                 deletion_stack_, live, gpuVars, drawVars, shutdownCalls,
                 sdWaitFailed, sdCallsBefore, stackVars, initVars,
                 otherVars>>

\* vkWaitForFences(device_, 1, &frames_[i].render_fence, true, kTimeoutNanoSecs)
ShutdownWaitForFences ==
  /\ pc = "sd_wait"
  /\ \E r \in (IF FenceHandlesValid(sdSlot)
                 THEN WaitResults(render_fence[sdSlot])
                 ELSE InvalidHandleResults) :
       /\ invalidUse' = (invalidUse \/ ~FenceHandlesValid(sdSlot))
       /\ IF r = "crash"
            THEN /\ pc' = "Crashed"
                 /\ UNCHANGED <<sdSlot, sdObserved, sdWaitFailed>>
            ELSE IF ShutdownReturnsEarly(r)
              THEN /\ pc' = "AfterShutdown"
                   /\ sdWaitFailed' = (r # "VK_SUCCESS")
                   /\ UNCHANGED <<sdSlot, sdObserved>>
              ELSE /\ pc' = ShutdownNextSlot(sdSlot)
                   /\ sdSlot' = sdSlot + 1
                   /\ sdWaitFailed' = (sdWaitFailed \/ r # "VK_SUCCESS")
                   /\ sdObserved' =
                        IF r = "VK_SUCCESS" THEN sdObserved \cup {sdSlot}
                        ELSE sdObserved
  /\ UNCHANGED <<initStep, initialized_, framenumber_, frameSlot,
                 deletion_stack_, live, gpuVars, drawVars, shutdownCalls,
                 sdCallsBefore, stackVars, initVars,
                 otherVars>>

\* what deletion_stack_.Flush() does to the registry and the GPU objects
FlushDeletionStack ==
  /\ calls' = calls \o FlushInvocations(deletion_stack_)
  /\ live' = live \ DestroyedBy(FlushInvocations(deletion_stack_))
  /\ deletion_stack_' = FlushRemainder(deletion_stack_)
  /\ invalidUse' =
       (invalidUse \/
        ~(DestroyedBy(FlushInvocations(deletion_stack_)) \subseteq live))

\* deletion_stack_.Flush() at the end of Shutdown
ShutdownFlush ==
  /\ pc = "sd_flush"
  /\ FlushDeletionStack
  /\ pc' = "AfterShutdown"
  /\ UNCHANGED <<initStep, initialized_, framenumber_, frameSlot, gpuVars,
                 drawVars, sdSlot, shutdownCalls, sdObserved, sdWaitFailed,
                 sdCallsBefore, stackHistory, initVars,
                 otherVars>>

\* main() returns: the global Renderer is destroyed, and with it its
\* deletion_stack_, whose destructor calls Flush()
ProcessExit ==
  /\ pc = "AfterShutdown"
  /\ FlushDeletionStack
  /\ pc' = "Exited"
  /\ UNCHANGED <<initStep, initialized_, framenumber_, frameSlot, gpuVars,
                 drawVars, sdSlot, shutdownCalls, sdObserved, sdWaitFailed,
                 sdCallsBefore, stackHistory, initVars,
                 otherVars>>

Next ==
  \/ InitStepAction
  \/ InitFinish
  \/ DrawBegin
  \/ DrawWaitForFences
  \/ DrawResetFences
  \/ DrawAcquireNextImage
  \/ DrawResetCommandBuffer
  \/ DrawBeginCommandBuffer
  \/ DrawObjects
  \/ DrawEndCommandBuffer
  \/ DrawQueueSubmit
  \/ DrawQueuePresent
  \/ \E i \in Slots : GpuComplete(i)
  \/ ShutdownBegin
  \/ ShutdownFenceStatus
  \/ ShutdownWaitForFences
  \/ ShutdownFlush
  \/ ProcessExit

Spec == Init /\ [][Next]_vars

(***************************************************************************)
(* A client of a stand-alone TaskStack.                                    *)
(***************************************************************************)

\* a client registers a fresh cleanup action
StackPush ==
  /\ nextAction <= MaxPushes
  /\ tasks_' = Push(tasks_, nextAction)
  /\ registered' = Append(registered, nextAction)
  /\ nextAction' = nextAction + 1
  /\ lastOp' = "Push"
  /\ prevOp' = lastOp
  /\ UNCHANGED <<calls, flushRegistered, flushInvoked, rendererVars,
                 otherVars>>

\* a client flushes the stack
StackFlush ==
  /\ calls' = calls \o FlushInvocations(tasks_)
  /\ tasks_' = FlushRemainder(tasks_)
  /\ flushRegistered' = registered
  /\ flushInvoked' = FlushInvocations(tasks_)
  /\ registered' = <<>>
  /\ lastOp' = "Flush"
  /\ prevOp' = lastOp
  /\ UNCHANGED <<nextAction, rendererVars, otherVars>>

NextStack == StackPush \/ StackFlush

SpecStack == Init /\ [][NextStack]_vars

(***************************************************************************)
(* QueueSubmitter::SubmitImmediate, called by the Texture constructor.     *)
(***************************************************************************)
\* the steps of SubmitImmediate, in source order; "function" is the call of
\* the record callback
SubmitSteps_ResetBeforeWait ==
  << "vkBeginCommandBuffer", "function", "vkEndCommandBuffer",
     "vkQueueSubmit", "vkResetFences", "vkWaitForFences",
     "vkResetCommandPool" >>

SubmitSteps ==
  << "vkBeginCommandBuffer", "function", "vkEndCommandBuffer",
     "vkQueueSubmit", "vkWaitForFences", "vkResetFences",
     "vkResetCommandPool" >>

SubmitStepIndex(step) ==
  CHOOSE j \in 1 .. Len(SubmitSteps) : SubmitSteps[j] = step

\* the calls whose result SubmitImmediate tests
SubmitTested == {"vkBeginCommandBuffer", "vkEndCommandBuffer", "vkQueueSubmit"}

SubmitAfter_EndIgnored(step, result) ==
  IF step \in SubmitTested \ {"vkEndCommandBuffer"} /\ result # "VK_SUCCESS"
    THEN "Aborted"
  ELSE IF SubmitStepIndex(step) = Len(SubmitSteps) THEN "vmaDestroyBuffer"
  ELSE SubmitSteps[SubmitStepIndex(step) + 1]

\* where the thread is after a call returned `result': a tested call that
\* fails ends in abort(); the results of the wait and of the two resets are
\* not looked at; after the last step SubmitImmediate returns into the
\* Texture constructor, whose next call is vmaDestroyBuffer
SubmitAfter(step, result) ==
  IF step \in SubmitTested /\ result # "VK_SUCCESS" THEN "Aborted"
  ELSE IF SubmitStepIndex(step) = Len(SubmitSteps) THEN "vmaDestroyBuffer"
  ELSE SubmitSteps[SubmitStepIndex(step) + 1]

\* a call as the history records it: the object it is made on, the
\* semaphores and the fence of a submission, the layouts of a barrier
CallRecord(call, on) ==
  [call |-> call, on |-> on, waitSemaphores |-> 0, signalSemaphores |-> 0,
   fence |-> "none", oldLayout |-> "none", newLayout |-> "none"]

\* init::SubmitInfo(&upload_context_.command_buffer)
SubmitInfo(command_buffers) ==
  [waitSemaphoreCount |-> 0, signalSemaphoreCount |-> 0,
   commandBufferCount |-> Len(command_buffers),
   pCommandBuffers |-> command_buffers]

\* vkCmdPipelineBarrier(cmd, ..., 1, &barrier) on image_.image
ImageBarrier(oldLayout, newLayout) ==
  [CallRecord("vkCmdPipelineBarrier", "image_.image")
     EXCEPT !.oldLayout = oldLayout, !.newLayout = newLayout]

\* vkCmdCopyBufferToImage(cmd, staging_buffer.buffer, image_.image,
\*                        VK_IMAGE_LAYOUT_TRANSFER_DST_OPTIMAL, ...)
BufferToImageCopy ==
  [CallRecord("vkCmdCopyBufferToImage", "image_.image")
     EXCEPT !.newLayout = "TRANSFER_DST_OPTIMAL"]

\* the commands the Texture constructor's callback records, in order
TextureCommands_CopyFirst ==
  << BufferToImageCopy,
     ImageBarrier("UNDEFINED", "TRANSFER_DST_OPTIMAL"),
     ImageBarrier("TRANSFER_DST_OPTIMAL", "SHADER_READ_ONLY_OPTIMAL") >>

TextureCommands ==
  << ImageBarrier("UNDEFINED", "TRANSFER_DST_OPTIMAL"),
     BufferToImageCopy,
     ImageBarrier("TRANSFER_DST_OPTIMAL", "SHADER_READ_ONLY_OPTIMAL") >>

\* the calls one step of SubmitImmediate makes
SubmitCallsOf(step) ==
  CASE step = "function" ->
         <<CallRecord(step, "upload_context_.command_buffer")>>
           \o TextureCommands
    [] step = "vkQueueSubmit" ->
         LET submit == SubmitInfo(<<"upload_context_.command_buffer">>) IN
         << [CallRecord(step, submit.pCommandBuffers[1]) EXCEPT
               !.waitSemaphores = submit.waitSemaphoreCount,
               !.signalSemaphores = submit.signalSemaphoreCount,
               !.fence = "upload_context_.fence"] >>
    [] step \in {"vkWaitForFences", "vkResetFences"} ->
         <<CallRecord(step, "upload_context_.fence")>>
    [] step = "vkResetCommandPool" ->
         <<CallRecord(step, "upload_context_.command_pool")>>
    [] OTHER -> <<CallRecord(step, "upload_context_.command_buffer")>>

\* the Texture constructor before SubmitImmediate: the staging buffer, the
\* copy of the pixels into it, the device-local image
TextureCallsBefore ==
  << CallRecord("CreateBuffer", "staging_buffer"),
     CallRecord("memcpy", "staging_buffer"),
     CallRecord("vmaCreateImage", "image_.image") >>

\* what every step of SubmitImmediate does with its result
SubmitCall(step, r) ==
  /\ upPc = step
  /\ uploadTrace' = Append(uploadTrace, <<step, r>>)
  /\ uploadCalls' = uploadCalls \o SubmitCallsOf(step)
  /\ upPc' = SubmitAfter(step, r)
  /\ upReturned' =
       IF SubmitAfter(step, r) = "vmaDestroyBuffer"
         THEN upReturned \cup {uploads}
         ELSE upReturned
  /\ UNCHANGED <<uploads, stackVars, rendererVars,
                 textureVars, extraVars>>

\* Texture::Texture up to the call of SubmitImmediate: CreateBuffer makes the
\* staging buffer or calls abort()
TextureUploadBegin ==
  /\ upPc = "idle"
  /\ uploads < MaxUploads
  /\ \E r \in PlainResults :
       IF r = "VK_SUCCESS"
         THEN /\ upPc' = SubmitSteps[1]
              /\ uploads' = uploads + 1
              /\ stagingLive' = stagingLive \cup {uploads + 1}
              /\ uploadTrace' = <<>>
              /\ uploadCalls' = TextureCallsBefore
              /\ upWaitResult' = "none"
         ELSE /\ upPc' = "Aborted"
              /\ UNCHANGED <<uploads, stagingLive, uploadTrace, uploadCalls,
                             upWaitResult>>
  /\ UNCHANGED <<upload_fence, upload_command_buffer, uploadPending,
                 upReturned, upResetBusy, stackVars, rendererVars,
                 textureVars, extraVars>>

\* vkBeginCommandBuffer(upload_context_.command_buffer, &begin_info)
SubmitBeginCommandBuffer ==
  \E r \in PlainResults :
    /\ SubmitCall("vkBeginCommandBuffer", r)
    /\ upload_command_buffer' =
         IF r = "VK_SUCCESS" THEN "recording" ELSE upload_command_buffer
    /\ UNCHANGED <<upload_fence, uploadPending, upWaitResult, stagingLive,
                   upResetBusy>>

\* function(upload_context_.command_buffer): records the copy
SubmitFunction ==
  /\ SubmitCall("function", "void")
  /\ UNCHANGED <<upload_fence, upload_command_buffer, uploadPending,
                 upWaitResult, stagingLive, upResetBusy>>

\* vkEndCommandBuffer(upload_context_.command_buffer)
SubmitEndCommandBuffer ==
  \E r \in PlainResults :
    /\ SubmitCall("vkEndCommandBuffer", r)
    /\ upload_command_buffer' =
         IF r = "VK_SUCCESS" THEN "executable" ELSE upload_command_buffer
    /\ UNCHANGED <<upload_fence, uploadPending, upWaitResult, stagingLive,
                   upResetBusy>>

\* vkQueueSubmit(queue_, 1, &submit, upload_context_.fence)
SubmitQueueSubmit ==
  \E r \in PlainResults :
    /\ SubmitCall("vkQueueSubmit", r)
    /\ upload_command_buffer' =
         IF r = "VK_SUCCESS" THEN "pending" ELSE upload_command_buffer
    /\ uploadPending' =
         IF r = "VK_SUCCESS" THEN uploadPending \cup {uploads}
         ELSE uploadPending
    /\ UNCHANGED <<upload_fence, upWaitResult, stagingLive, upResetBusy>>

\* vkWaitForFences(device_, 1, &upload_context_.fence, true, 9'999'999'999)
SubmitWaitForFences ==
  \E r \in WaitResults(upload_fence) :
    /\ SubmitCall("vkWaitForFences", r)
    /\ upWaitResult' = r
    /\ UNCHANGED <<upload_fence, upload_command_buffer, uploadPending,
                   stagingLive, upResetBusy>>

\* vkResetFences(device_, 1, &upload_context_.fence)
SubmitResetFences ==
  \E r \in PlainResults :
    /\ SubmitCall("vkResetFences", r)
    /\ upload_fence' = IF r = "VK_SUCCESS" THEN "unsignaled" ELSE upload_fence
    /\ upResetBusy' = (upResetBusy \/ uploadPending # {})
    /\ UNCHANGED <<upload_command_buffer, uploadPending, upWaitResult,
                   stagingLive>>

\* vkResetCommandPool(device_, upload_context_.command_pool, 0)
SubmitResetCommandPool ==
  \E r \in PlainResults :
    /\ SubmitCall("vkResetCommandPool", r)
    /\ upload_command_buffer' =
         IF r = "VK_SUCCESS" THEN "initial" ELSE upload_command_buffer
    /\ upResetBusy' = (upResetBusy \/ uploadPending # {})
    /\ UNCHANGED <<upload_fence, uploadPending, upWaitResult, stagingLive>>

\* Texture::Texture after SubmitImmediate returned:
\* vmaDestroyBuffer(allocator, staging_buffer.buffer, ...)
TextureDestroyStaging ==
  /\ upPc = "vmaDestroyBuffer"
  /\ stagingLive' = stagingLive \ {uploads}
  /\ uploadCalls' =
       Append(uploadCalls, CallRecord("vmaDestroyBuffer", "staging_buffer"))
  /\ upPc' = "vkCreateImageView"
  /\ UNCHANGED <<upload_fence, upload_command_buffer, uploadPending, uploads,
                 uploadTrace, upWaitResult, upReturned, upResetBusy, stackVars,
                 rendererVars, textureVars, extraVars>>

\* vkCreateImageView(device, &image_view_create_info, nullptr, &image_view_)
\* and the constructor's return
TextureCreateImageView ==
  /\ upPc = "vkCreateImageView"
  /\ uploadCalls' =
       Append(uploadCalls, CallRecord("vkCreateImageView", "image_.image"))
  /\ upPc' = "idle"
  /\ UNCHANGED <<upload_fence, upload_command_buffer, uploadPending, uploads,
                 uploadTrace, upWaitResult, stagingLive, upReturned,
                 upResetBusy, stackVars, rendererVars, textureVars, extraVars>>

\* the queue executes submissions in order: the oldest one finishes, the
\* fence handed to vkQueueSubmit signals, a ONE_TIME_SUBMIT command buffer
\* leaves the pending state
UploadGpuComplete ==
  /\ uploadPending # {}
  /\ LET id == CHOOSE u \in uploadPending : \A v \in uploadPending : u <= v IN
     uploadPending' = uploadPending \ {id}
  /\ upload_fence' = "signaled"
  /\ upload_command_buffer' =
       IF upload_command_buffer = "pending" /\ Cardinality(uploadPending) = 1
         THEN "invalid"
         ELSE upload_command_buffer
  /\ UNCHANGED <<upPc, uploads, uploadTrace, uploadCalls, upWaitResult,
                 stagingLive, upReturned, upResetBusy, stackVars, rendererVars,
                 textureVars, extraVars>>

NextUpload ==
  \/ TextureUploadBegin
  \/ SubmitBeginCommandBuffer
  \/ SubmitFunction
  \/ SubmitEndCommandBuffer
  \/ SubmitQueueSubmit
  \/ SubmitWaitForFences
  \/ SubmitResetFences
  \/ SubmitResetCommandPool
  \/ TextureDestroyStaging
  \/ TextureCreateImageView
  \/ UploadGpuComplete

SpecUpload == Init /\ [][NextUpload]_vars

(***************************************************************************)
(* vk::Texture: construction, move construction, assignment, destruction.  *)
(* A device or allocator handle is 1 when set; an image and its view carry *)
(* the image's identity.                                                   *)
(***************************************************************************)
\* other.device_ = VK_NULL_HANDLE; ... other.image_view_ = VK_NULL_HANDLE;
Nulled(t) ==
  [t EXCEPT !.device_ = Null, !.allocator_ = Null, !.image_ = Null,
            !.image_view_ = Null]

\* the member initializers of Texture(Texture&& other)
MovedFrom(other) ==
  [life |-> "alive", device_ |-> other.device_,
   allocator_ |-> other.allocator_, image_ |-> other.image_,
   image_view_ |-> other.image_view_]

\* the four assignments at the head of operator=
AssignedFrom(t, other) ==
  [t EXCEPT !.device_ = other.device_, !.allocator_ = other.allocator_,
            !.image_ = other.image_, !.image_view_ = other.image_view_]

\* ~Texture: if (allocator_) { vkDestroyImageView; vmaDestroyImage; }
DestructorDestroys(t) == t.allocator_ # Null

\* operator= is declared to return Texture& and has no return statement
AssignResults == {"returns", "crash"}

\* Texture t = Texture::CreateFromLocalBuffer(...)
TextureCreate(t) ==
  /\ texPc = "run"
  /\ textures[t].life = "none"
  /\ nextImage <= MaxImages
  /\ textures' = [textures EXCEPT ![t] =
                    [life |-> "alive", device_ |-> 1, allocator_ |-> 1,
                     image_ |-> nextImage, image_view_ |-> nextImage]]
  /\ nextImage' = nextImage + 1
  /\ UNCHANGED <<imageDestroys, viewDestroys, texPc, stackVars, rendererVars,
                 uploadVars, extraVars>>

\* Texture t(std::move(other))
TextureMoveConstruct(t, other) ==
  /\ texPc = "run"
  /\ t # other
  /\ textures[t].life = "none"
  /\ textures[other].life = "alive"
  /\ textures' = [textures EXCEPT ![t] = MovedFrom(textures[other]),
                                  ![other] = Nulled(textures[other])]
  /\ UNCHANGED <<imageDestroys, viewDestroys, nextImage, texPc, stackVars,
                 rendererVars, uploadVars, extraVars>>

\* t = other, other possibly t itself: the nulling of `other' comes after
\* the copying of its members
TextureAssign(t, other) ==
  /\ texPc = "run"
  /\ textures[t].life = "alive"
  /\ textures[other].life = "alive"
  /\ LET copied == [textures EXCEPT ![t] = AssignedFrom(textures[t],
                                                        textures[other])]
     IN textures' = [copied EXCEPT ![other] = Nulled(copied[other])]
  /\ \E r \in AssignResults :
       texPc' = IF r = "crash" THEN "Crashed" ELSE texPc
  /\ UNCHANGED <<imageDestroys, viewDestroys, nextImage, stackVars,
                 rendererVars, uploadVars, extraVars>>

\* t goes out of scope
TextureDestroy(t) ==
  /\ texPc = "run"
  /\ textures[t].life = "alive"
  /\ textures' = [textures EXCEPT ![t].life = "destroyed"]
  /\ IF DestructorDestroys(textures[t])
       THEN /\ viewDestroys' =
                 IF textures[t].image_view_ \in ImageIds
                   THEN [viewDestroys EXCEPT ![textures[t].image_view_] = @ + 1]
                   ELSE viewDestroys
            /\ imageDestroys' =
                 IF textures[t].image_ \in ImageIds
                   THEN [imageDestroys EXCEPT ![textures[t].image_] = @ + 1]
                   ELSE imageDestroys
       ELSE UNCHANGED <<imageDestroys, viewDestroys>>
  /\ UNCHANGED <<nextImage, texPc, stackVars, rendererVars, uploadVars,
                 extraVars>>

NextTexture ==
  \/ \E t \in TexObjs : TextureCreate(t)
  \/ \E t, other \in TexObjs : TextureMoveConstruct(t, other)
  \/ \E t, other \in TexObjs : TextureAssign(t, other)
  \/ \E t \in TexObjs : TextureDestroy(t)

SpecTexture == Init /\ [][NextTexture]_vars

(***************************************************************************)
(* Renderer::UploadMesh and the draw call DrawObjects records for a mesh.  *)
(* A vertex is its identity; a buffer's contents are the sequence of       *)
(* records copied into it.                                                 *)
(***************************************************************************)
\* the index lists over n vertices the model hands to UploadMesh
IndexLists(n) ==
  {[j \in 1 .. len |-> ((j - 1) * stride) % n] :
     len \in 0 .. MaxMeshIndices, stride \in 1 .. n}

\* const size_t size = mesh.vertices.size() * sizeof(Vertex)
VertexBytes(msh) == Len(msh.vertices) * sizeofVertex

\* uint32_t indices_size = mesh.indices.size() * sizeof(uint32_t); the
\* product of a list of at most MaxMeshIndices indices fits the 32 bits
IndicesSize(msh) == Len(msh.indices) * sizeofIndex

\* the size of the index staging buffer: it is created with
\* staging_buffer_info, whose size is still the vertices' `size'
IndexStagingCapacity(msh) == VertexBytes(msh)

\* memcpy(data, mesh.indices.data(), indices_size) into the index staging
\* buffer and the copy of indices_size bytes out of it: beyond the buffer's
\* size both are undefined
IndexCopyOutcomes(msh) ==
  IF IndicesSize(msh) <= IndexStagingCapacity(msh) THEN {"intact"}
  ELSE {"intact", "truncated", "crash"}

\* a 32-bit word read from beyond the staging buffer: no index of the mesh
Indeterminate == 0 - 1

\* what the index buffer holds after the copy
IndexBufferContents(msh, outcome) ==
  IF outcome = "intact" THEN msh.indices
  ELSE [j \in 1 .. Len(msh.indices) |->
          IF j * sizeofIndex <= IndexStagingCapacity(msh)
            THEN msh.indices[j]
            ELSE Indeterminate]

\* the calls of UploadMesh that make it return false
UploadMeshCalls ==
  <<"staging_buffer", "vertex_buffer", "index_staging_buffer",
    "index_buffer">>

\* SubmitImmediate: the copy finished, the wait ran out, or abort()
SubmitOutcomes == {"complete", "timeout", "abort"}

\* what a buffer holds when UploadMesh returns
Copied(contents, sub) == IF sub = "complete" THEN contents ELSE "pending"

\* UploadMesh as a function of the mesh and of what its calls do: `fail' is
\* the creation that fails (0: none), sub1 and sub2 the outcomes of the two
\* SubmitImmediate calls, ub the outcome of the index copy
UploadMeshResult(msh, fail, sub1, sub2, ub) ==
  LET r(p, vb, ib, done) ==
        [pc |-> p, vertex_buffer |-> vb, index_buffer |-> ib, done |-> done]
      vb == Copied(msh.vertices, sub1)
  IN
  IF fail \in {1, 2} THEN r("false", "none", "none", TRUE)
  ELSE IF sub1 = "abort" THEN r("Aborted", "pending", "none", FALSE)
  ELSE IF msh.indices = <<>> THEN r("true", vb, "none", sub1 = "complete")
  ELSE IF fail = 3 THEN r("false", vb, "none", sub1 = "complete")
  ELSE IF ub = "crash" THEN r("Crashed", vb, "none", sub1 = "complete")
  ELSE IF fail = 4 THEN r("false", vb, "none", sub1 = "complete")
  ELSE IF sub2 = "abort" THEN r("Aborted", vb, "pending", FALSE)
  ELSE r("true", vb, Copied(IndexBufferContents(msh, ub), sub2),
         sub1 = "complete" /\ sub2 = "complete")

\* a staging buffer: the size it was created with, the bytes memcpy wrote
\* into its mapping, the bytes the copy command reads from it, and whether
\* local_del has destroyed it
StagingBuffer(size, written, copied, destroyed) ==
  [size |-> size, written |-> written, copied |-> copied,
   destroyed |-> destroyed]

\* the staging buffers of one UploadMesh; local_del's destructor runs its
\* actions when UploadMesh returns, and not when the process ends inside it
StagingBuffersOf(msh, fail, sub1, sub2, ub) ==
  LET returns ==
        UploadMeshResult(msh, fail, sub1, sub2, ub).pc \in {"true", "false"}
      vertexStaging ==
        StagingBuffer(VertexBytes(msh), VertexBytes(msh),
                      IF fail = 2 THEN 0 ELSE VertexBytes(msh), returns)
      indexStaging ==
        StagingBuffer(IndexStagingCapacity(msh), IndicesSize(msh),
                      IF fail = 4 \/ ub = "crash" THEN 0
                      ELSE IndicesSize(msh), returns)
  IN
  IF fail = 1 THEN <<>>
  ELSE IF fail = 2 \/ sub1 = "abort" \/ msh.indices = <<>> \/ fail = 3
    THEN <<vertexStaging>>
  ELSE <<vertexStaging, indexStaging>>

\* const bool is_indexed_draw = !object.mesh->indices.empty()
IsIndexedDraw(msh) == msh.indices # <<>>

\* bool ok = UploadMesh(mesh)
UploadMesh ==
  /\ meshPc = "call"
  /\ \E fail \in 0 .. Len(UploadMeshCalls), sub1, sub2 \in SubmitOutcomes,
        ub \in IndexCopyOutcomes(mesh) :
       LET res == UploadMeshResult(mesh, fail, sub1, sub2, ub) IN
       /\ meshPc' = res.pc
       /\ vertex_buffer' = res.vertex_buffer
       /\ index_buffer' = res.index_buffer
       /\ copiesDone' = res.done
       /\ stagingBuffers' = StagingBuffersOf(mesh, fail, sub1, sub2, ub)
  /\ UNCHANGED <<mesh, meshDraw, baseVars, exceptMesh>>

\* DrawObjects records the draw of a renderable that uses the mesh
DrawMesh ==
  /\ meshPc = "true"
  /\ meshDraw = "none"
  /\ meshDraw' = IF IsIndexedDraw(mesh) THEN "vkCmdDrawIndexed" ELSE "vkCmdDraw"
  /\ UNCHANGED <<mesh, meshPc, vertex_buffer, index_buffer, copiesDone,
                 stagingBuffers, baseVars, exceptMesh>>

InitMesh ==
  /\ InitBase
  /\ \E n \in 1 .. MaxMeshVertices :
       \E indices \in IndexLists(n) :
         MeshVarsOf([j \in 1 .. n |-> j], indices)
  /\ IdleExtraVars("mesh")

NextMesh == UploadMesh \/ DrawMesh

SpecMesh == InitMesh /\ [][NextMesh]_vars

(***************************************************************************)
(* Renderer::GetAlignedBufferSize: unsigned arithmetic of SizeBits bits.   *)
(***************************************************************************)
\* the number of values of a size_t
SizeRange == 2 ^ SizeBits

SizeValues == 0 .. SizeRange - 1

\* x & y on the n low bits
RECURSIVE BitAnd(_, _, _)
BitAnd(x, y, n) ==
  IF n = 0 THEN 0
  ELSE (x % 2) * (y % 2) + 2 * BitAnd(x \div 2, y \div 2, n - 1)

\* ~x
BitNot(x) == SizeRange - 1 - x

\* aligned_size + min_alignment - 1
RoundedUp_PlusAlignment(size, alignment) == (size + alignment) % SizeRange

RoundedUp(size, alignment) == (size + alignment - 1) % SizeRange

\* ~(min_alignment - 1)
AlignMask_OfAlignment(alignment) == BitNot(alignment)

AlignMask(alignment) == BitNot((alignment - 1) % SizeRange)

\* the value GetAlignedBufferSize returns
GetAlignedBufferSize(size, alignment) ==
  IF alignment > 0
    THEN BitAnd(RoundedUp(size, alignment), AlignMask(alignment), SizeBits)
    ELSE size

\* size_t s = GetAlignedBufferSize(original_size)
GetAlignedBufferSizeCall ==
  /\ alignPc = "call"
  /\ aligned_size' = GetAlignedBufferSize(original_size, min_alignment)
  /\ alignPc' = "returned"
  /\ UNCHANGED <<original_size, min_alignment, baseVars, exceptAlign>>

InitAlign ==
  /\ InitBase
  /\ \E size \in SizeValues, alignment \in SizeValues :
       AlignVarsOf(size, alignment)
  /\ IdleExtraVars("align")

NextAlign == GetAlignedBufferSizeCall

SpecAlign == InitAlign /\ [][NextAlign]_vars

(***************************************************************************)
(* The registries: Renderer::CreateMaterial, GetMaterial, GetMesh and the  *)
(* meshes_[name] = m of LoadMeshes.  A pointer into a map is the key of    *)
(* the entry it points to; nullptr is "nullptr".                           *)
(***************************************************************************)
RegistryNames == {"default", "triangle", "missing"}

PipelineHandles == {1, 2}

LayoutHandles == {1, 2}

MeshValues == {1, 2}

\* map[key] = value
Assigned(map, key, value) ==
  [k \in DOMAIN map \cup {key} |-> IF k = key THEN value ELSE map[k]]

\* Material material; with its two members set
MaterialOf(pipeline, layout) ==
  [pipeline |-> pipeline, pipeline_layout |-> layout]

\* the map after a lookup: find() inserts nothing
AfterFind_Subscript(map, name) ==
  IF name \in DOMAIN map THEN map ELSE Assigned(map, name, Null)

AfterFind(map, name) == map

\* if (it == map.end()) return nullptr; return &(*it).second;
Found(map, name) == IF name \in DOMAIN map THEN name ELSE "nullptr"

RegistryCallOf(op, name, value, ret) ==
  [op |-> op, name |-> name, value |-> value, ret |-> ret,
   materialsBefore |-> materials_, meshesBefore |-> meshes_]

CreateMaterial(pipeline, layout, name) ==
  /\ Len(registered_) < MaxRegistrations
  /\ materials_' = Assigned(materials_, name, MaterialOf(pipeline, layout))
  /\ registered_' = Append(registered_,
                           [map |-> "materials_", name |-> name,
                            value |-> MaterialOf(pipeline, layout)])
  /\ registryCall' = RegistryCallOf("CreateMaterial", name,
                                    MaterialOf(pipeline, layout), name)
  /\ UNCHANGED <<meshes_, baseVars, exceptRegistry>>

\* meshes_[name] = m
RegisterMesh(name, m) ==
  /\ Len(registered_) < MaxRegistrations
  /\ meshes_' = Assigned(meshes_, name, m)
  /\ registered_' = Append(registered_,
                           [map |-> "meshes_", name |-> name, value |-> m])
  /\ registryCall' = RegistryCallOf("RegisterMesh", name, m, name)
  /\ UNCHANGED <<materials_, baseVars, exceptRegistry>>

GetMaterial(name) ==
  /\ materials_' = AfterFind(materials_, name)
  /\ registryCall' = RegistryCallOf("GetMaterial", name, Null,
                                    Found(materials_, name))
  /\ UNCHANGED <<meshes_, registered_, baseVars, exceptRegistry>>

GetMesh(name) ==
  /\ meshes_' = AfterFind(meshes_, name)
  /\ registryCall' = RegistryCallOf("GetMesh", name, Null,
                                    Found(meshes_, name))
  /\ UNCHANGED <<materials_, registered_, baseVars, exceptRegistry>>

InitRegistry == InitBase /\ IdleExtraVars("registry")

NextRegistry ==
  \/ \E pipeline \in PipelineHandles, layout \in LayoutHandles,
        name \in RegistryNames : CreateMaterial(pipeline, layout, name)
  \/ \E name \in RegistryNames, m \in MeshValues : RegisterMesh(name, m)
  \/ \E name \in RegistryNames : GetMaterial(name)
  \/ \E name \in RegistryNames : GetMesh(name)

SpecRegistry == InitRegistry /\ [][NextRegistry]_vars

(***************************************************************************)
(* LoadTexture: the expansion of a 3-channel image to 4 channels and the   *)
(* staging buffer the Texture constructor fills with the result.           *)
(***************************************************************************)
ByteValues == {0, 255}

\* width and height of the images of at most MaxPixels pixels
ImageExtents ==
  {e \in (1 .. MaxPixels) \X (1 .. MaxPixels) : e[1] * e[2] <= MaxPixels}

\* the decoded images: width * height * component bytes
SourceImages ==
  UNION {[width : {e[1]}, height : {e[2]}, component : {n},
          image : [1 .. e[1] * e[2] * n -> ByteValues]] :
           e \in ImageExtents, n \in {3, 4}}

\* buffer_size = image.width * image.height * 4, or image.image.size()
BufferSize(img) ==
  IF img.component = 3 THEN img.width * img.height * 4 ELSE Len(img.image)

\* the offset of byte j of pixel p behind &image.image[0]: rgb += 3
RgbOffset_NotAdvanced(p, j) == j

RgbOffset(p, j) == 3 * p + j

\* the bytes behind `buffer': the loop writes bytes 0..2 of each pixel and
\* leaves byte 3 as operator new[] delivered it (alpha[p])
BufferBytes(img, alpha) ==
  IF img.component = 3
    THEN [k \in 1 .. BufferSize(img) |->
            LET p == (k - 1) \div 4
                j == (k - 1) % 4
            IN IF j < 3 THEN img.image[RgbOffset(p, j) + 1] ELSE alpha[p + 1]]
    ELSE img.image

\* CreateBuffer, vmaMapMemory and memcpy of the Texture constructor
StagingOutcomes == {"filled", "abort", "map failed"}

\* LoadTexture(allocator, device, queue_submitter, model, texture, textures)
LoadTexture ==
  /\ loadPc = "call"
  /\ \E alpha \in [1 .. image.width * image.height -> ByteValues],
        outcome \in StagingOutcomes :
       /\ buffer' = BufferBytes(image, alpha)
       /\ buffer_size' = BufferSize(image)
       /\ staging_buffer' =
            IF outcome = "abort" THEN staging_buffer
            ELSE [size |-> BufferSize(image),
                  data |-> IF outcome = "filled"
                             THEN BufferBytes(image, alpha) ELSE <<>>]
       /\ loadPc' = CASE outcome = "filled" -> "returned"
                      [] outcome = "abort" -> "Aborted"
                      [] OTHER -> "Crashed"
  /\ UNCHANGED <<image, baseVars, exceptLoad>>

InitLoad ==
  /\ InitBase
  /\ \E img \in SourceImages : LoadVarsOf(img)
  /\ IdleExtraVars("load")

NextLoad == LoadTexture

SpecLoad == InitLoad /\ [][NextLoad]_vars

(***************************************************************************)
(* The earlier renderer: Renderer::ToggleShader and the pipeline selection *)
(* of its Renderer::Draw.                                                  *)
(***************************************************************************)
\* (selected_shader_ + 1) % 3
NextShader_NoWrap(selected) == selected + 1

NextShader(selected) == (selected + 1) % 3

\* the vkCmdBindPipeline calls Draw records between vkCmdBeginRenderPass
\* and vkCmdDraw
DrawBindsPipelines(selected) ==
  IF selected = 0 THEN <<"triangle_pipeline_">>
  ELSE IF selected = 1 THEN <<"colored_triangle_pipeline_">>
  ELSE <<"mesh_pipeline_">>

\* the vertex buffers Draw binds
DrawBindsVertexBuffers(selected) ==
  IF selected = 0 THEN <<>>
  ELSE IF selected = 1 THEN <<>>
  ELSE <<"triangle_mesh_.buffer.buffer">>

\* void Renderer::ToggleShader()
ToggleShader ==
  /\ toggles < MaxToggles
  /\ selected_shader_' = NextShader(selected_shader_)
  /\ toggles' = toggles + 1
  /\ UNCHANGED <<toggleDraws, baseVars, exceptToggle>>

\* void Renderer::Draw(): it returns before recording when the fence wait,
\* the fence reset, the acquisition, the command buffer reset or
\* vkBeginCommandBuffer fails
ToggleDraw ==
  /\ Len(toggleDraws) < MaxToggleDraws
  /\ \E recorded \in BOOLEAN :
       toggleDraws' =
         Append(toggleDraws,
                [selected |-> selected_shader_,
                 recorded |-> recorded,
                 pipelines |-> IF recorded
                                 THEN DrawBindsPipelines(selected_shader_)
                                 ELSE <<>>,
                 vertex_buffers |->
                   IF recorded THEN DrawBindsVertexBuffers(selected_shader_)
                   ELSE <<>>])
  /\ UNCHANGED <<selected_shader_, toggles, baseVars, exceptToggle>>

InitToggle == InitBase /\ IdleExtraVars("toggle")

NextToggle == ToggleShader \/ ToggleDraw

SpecToggle == InitToggle /\ [][NextToggle]_vars

(***************************************************************************)
(* The semaphores and the fence of one frame: what Renderer::Draw hands to *)
(* vkAcquireNextImageKHR, vkQueueSubmit and vkQueuePresentKHR, and what    *)
(* the device and the presentation engine do with it.                      *)
(***************************************************************************)
\* FrameData& frame = GetFrame()
SyncSlot == syncFramenumber % kFrameOverlap

\* VkPipelineStageFlags wait_stage
DrawWaitStage == "COLOR_ATTACHMENT_OUTPUT"

\* what Draw requests: an acquisition, a submission or a presentation
GpuOp(kind, slot, img, stage, waits, signals, fence) ==
  [kind |-> kind, draw |-> syncDraws, slot |-> slot, image |-> img,
   stage |-> stage, waits |-> waits, signals |-> signals, fence |-> fence,
   state |-> "queued", waited |-> FALSE]

\* vkAcquireNextImageKHR(device_, swapchain_, kTimeoutNanoSecs,
\*                       frame.present_semaphore, nullptr, &index)
DrawAcquireOp(slot, img) ==
  GpuOp("acquire", slot, img, "none", <<>>, <<PresentSemaphore(slot)>>,
        <<>>)

\* the VkSubmitInfo and the fence of vkQueueSubmit
DrawSubmitOp(slot, img) ==
  GpuOp("submit", slot, img, DrawWaitStage, <<PresentSemaphore(slot)>>,
        <<RenderSemaphore(slot)>>, <<slot>>)

\* the VkPresentInfoKHR of vkQueuePresentKHR; `kind' is "present", or
\* "rejected present" for a request the presentation engine rejects
DrawPresentOp(kind, slot, img) ==
  GpuOp(kind, slot, img, "none", <<RenderSemaphore(slot)>>, <<>>, <<>>)

\* vkQueuePresentKHR: VK_SUCCESS and VK_SUBOPTIMAL_KHR present the image;
\* VK_ERROR_OUT_OF_DATE_KHR rejects the request, whose semaphore wait still
\* executes; after VK_ERROR_OUT_OF_HOST_MEMORY nothing was enqueued
PresentResults == SwapchainResults \cup {"VK_ERROR_OUT_OF_HOST_MEMORY"}

PresentEnqueues(r) ==
  CASE r \in {"VK_SUCCESS", "VK_SUBOPTIMAL_KHR"} -> <<"present">>
    [] r = "VK_ERROR_OUT_OF_DATE_KHR" -> <<"rejected present">>
    [] OTHER -> <<>>

\* the swapchain images the application holds or has queued
ImagesInUse ==
  {gpuOps[i].image : i \in {j \in 1 .. Len(gpuOps) :
     /\ gpuOps[j].kind = "acquire"
     /\ ~\E k \in 1 .. Len(gpuOps) :
           /\ gpuOps[k].kind = "present"
           /\ gpuOps[k].draw = gpuOps[j].draw
           /\ gpuOps[k].state = "done"}}

\* vkWaitForFences and vkResetFences at the head of Draw: a wait on an
\* unsignaled fence runs out and Draw returns
SyncDrawBegin ==
  /\ syncPc = "idle"
  /\ syncDraws < MaxSyncDraws
  /\ syncDraws' = syncDraws + 1
  /\ IF syncFences[SyncSlot] = "signaled"
       THEN \E r \in PlainResults :
              IF r = "VK_SUCCESS"
                THEN /\ syncFences' =
                          [syncFences EXCEPT ![SyncSlot] = "unsignaled"]
                     /\ syncPc' = "vkAcquireNextImageKHR"
                ELSE UNCHANGED <<syncFences, syncPc>>
       ELSE UNCHANGED <<syncFences, syncPc>>
  /\ UNCHANGED <<syncFramenumber, syncImage, semaphores, gpuOps, gpuEvents,
                 baseVars, exceptSync>>

\* vkAcquireNextImageKHR: VK_SUCCESS and VK_SUBOPTIMAL_KHR acquire an image
\* and will signal the semaphore; Draw goes on only after VK_SUCCESS
SyncAcquire ==
  /\ syncPc = "vkAcquireNextImageKHR"
  /\ \E r \in SwapchainResults :
       IF r \in {"VK_SUCCESS", "VK_SUBOPTIMAL_KHR"}
         THEN \E img \in (0 .. NumSwapImages - 1) \ ImagesInUse :
                /\ gpuOps' = Append(gpuOps, DrawAcquireOp(SyncSlot, img))
                /\ syncImage' = img
                /\ syncPc' = IF r = "VK_SUCCESS"
                               THEN "vkQueueSubmit" ELSE "idle"
         ELSE /\ syncPc' = "idle"
              /\ UNCHANGED <<gpuOps, syncImage>>
  /\ UNCHANGED <<syncDraws, syncFramenumber, semaphores, syncFences,
                 gpuEvents, baseVars, exceptSync>>

\* the recording (vkResetCommandBuffer .. vkEndCommandBuffer) and
\* vkQueueSubmit(graphics_queue_, 1, &submit, frame.render_fence): Draw
\* returns when one of them fails
SyncSubmit ==
  /\ syncPc = "vkQueueSubmit"
  /\ \E r \in PlainResults :
       IF r = "VK_SUCCESS"
         THEN /\ gpuOps' = Append(gpuOps, DrawSubmitOp(SyncSlot, syncImage))
              /\ syncPc' = "vkQueuePresentKHR"
         ELSE /\ syncPc' = "idle"
              /\ UNCHANGED gpuOps
  /\ UNCHANGED <<syncDraws, syncFramenumber, syncImage, semaphores,
                 syncFences, gpuEvents, baseVars, exceptSync>>

\* vkQueuePresentKHR(graphics_queue_, &present_info); framenumber_++ after
\* VK_SUCCESS only
SyncPresent ==
  /\ syncPc = "vkQueuePresentKHR"
  /\ \E r \in PresentResults :
       /\ gpuOps' =
            gpuOps \o [k \in 1 .. Len(PresentEnqueues(r)) |->
                         DrawPresentOp(PresentEnqueues(r)[k], SyncSlot,
                                       syncImage)]
       /\ syncFramenumber' =
            IF r = "VK_SUCCESS" THEN syncFramenumber + 1 ELSE syncFramenumber
  /\ syncPc' = "idle"
  /\ UNCHANGED <<syncDraws, syncImage, semaphores, syncFences, gpuEvents,
                 baseVars, exceptSync>>

\* the semaphores of `sems' set to `value'
Signaled(sems, value) ==
  [s \in FrameSemaphores |->
     IF \E i \in 1 .. Len(sems) : sems[i] = s THEN value ELSE semaphores[s]]

AllSignaled(sems) ==
  \A i \in 1 .. Len(sems) : semaphores[sems[i]] = "signaled"

AllUnsignaled(sems) ==
  \A i \in 1 .. Len(sems) : semaphores[sems[i]] = "unsignaled"

\* request i still has its semaphore wait before it
WaitPending(i) ==
  /\ gpuOps[i].waits # <<>>
  /\ gpuOps[i].state # "done"
  /\ ~gpuOps[i].waited

\* the waits of the requests of one queue execute in the order of the
\* requests: no earlier request still waits for a semaphore of request i
FirstWaiter(i) ==
  \A j \in 1 .. i - 1 :
    WaitPending(j) =>
      \A a \in 1 .. Len(gpuOps[i].waits), b \in 1 .. Len(gpuOps[j].waits) :
        gpuOps[i].waits[a] # gpuOps[j].waits[b]

GpuEvent(kind, op) ==
  [kind |-> kind, draw |-> op.draw, slot |-> op.slot, image |-> op.image,
   waits |-> op.waits, signals |-> op.signals, fence |-> op.fence]

\* the presentation engine releases an acquired image: the semaphore given
\* to vkAcquireNextImageKHR signals
GpuImageAvailable(i) ==
  /\ gpuOps[i].kind = "acquire"
  /\ gpuOps[i].state = "queued"
  /\ gpuOps' = [gpuOps EXCEPT ![i].state = "done"]
  /\ semaphores' = Signaled(gpuOps[i].signals, "signaled")
  /\ gpuEvents' = Append(gpuEvents, GpuEvent("image available", gpuOps[i]))
  /\ UNCHANGED <<syncPc, syncDraws, syncFramenumber, syncImage, syncFences,
                 baseVars, exceptSync>>

\* the stages a wait at `stage' holds back include color attachment output
HoldsColorOutput(stage) ==
  stage \in {"TOP_OF_PIPE", "COLOR_ATTACHMENT_OUTPUT", "ALL_COMMANDS"}

\* a submission's color attachment output begins: if its wait stage holds
\* that stage back, only once its wait semaphores signaled, which the wait
\* unsignals
GpuColorOutput(i) ==
  /\ gpuOps[i].kind = "submit"
  /\ gpuOps[i].state = "queued"
  /\ IF HoldsColorOutput(gpuOps[i].stage)
       THEN /\ AllSignaled(gpuOps[i].waits)
            /\ FirstWaiter(i)
            /\ semaphores' = Signaled(gpuOps[i].waits, "unsignaled")
            /\ gpuOps' = [gpuOps EXCEPT ![i].state = "color output",
                                        ![i].waited = TRUE]
       ELSE /\ UNCHANGED semaphores
            /\ gpuOps' = [gpuOps EXCEPT ![i].state = "color output"]
  /\ gpuEvents' = Append(gpuEvents, GpuEvent("color output", gpuOps[i]))
  /\ UNCHANGED <<syncPc, syncDraws, syncFramenumber, syncImage, syncFences,
                 baseVars, exceptSync>>

\* a submission completes: its wait is over, its signal semaphores, which
\* the waits before it have unsignaled, and its fence signal
GpuRenderComplete(i) ==
  /\ gpuOps[i].kind = "submit"
  /\ gpuOps[i].state = "color output"
  /\ gpuOps[i].waited \/ (AllSignaled(gpuOps[i].waits) /\ FirstWaiter(i))
  /\ AllUnsignaled(gpuOps[i].signals)
  /\ gpuOps' = [gpuOps EXCEPT ![i].state = "done", ![i].waited = TRUE]
  /\ semaphores' =
       [s \in FrameSemaphores |->
          IF \E k \in 1 .. Len(gpuOps[i].signals) : gpuOps[i].signals[k] = s
            THEN "signaled"
          ELSE IF /\ ~gpuOps[i].waited
                  /\ \E k \in 1 .. Len(gpuOps[i].waits) :
                        gpuOps[i].waits[k] = s
            THEN "unsignaled"
          ELSE semaphores[s]]
  /\ syncFences' =
       [slot \in Slots |->
          IF \E k \in 1 .. Len(gpuOps[i].fence) : gpuOps[i].fence[k] = slot
            THEN "signaled" ELSE syncFences[slot]]
  /\ gpuEvents' = Append(gpuEvents, GpuEvent("render complete", gpuOps[i]))
  /\ UNCHANGED <<syncPc, syncDraws, syncFramenumber, syncImage, baseVars,
                 exceptSync>>

\* the presentation of an image begins once the wait semaphores of the
\* request signaled; a rejected request only waits
GpuPresent(i) ==
  /\ gpuOps[i].kind \in {"present", "rejected present"}
  /\ gpuOps[i].state = "queued"
  /\ AllSignaled(gpuOps[i].waits)
  /\ FirstWaiter(i)
  /\ semaphores' = Signaled(gpuOps[i].waits, "unsignaled")
  /\ gpuOps' = [gpuOps EXCEPT ![i].state = "done"]
  /\ gpuEvents' = Append(gpuEvents, GpuEvent(gpuOps[i].kind, gpuOps[i]))
  /\ UNCHANGED <<syncPc, syncDraws, syncFramenumber, syncImage, syncFences,
                 baseVars, exceptSync>>

InitSync == InitBase /\ IdleExtraVars("sync")

NextSync ==
  \/ SyncDrawBegin
  \/ SyncAcquire
  \/ SyncSubmit
  \/ SyncPresent
  \/ \E i \in 1 .. Len(gpuOps) : GpuImageAvailable(i)
  \/ \E i \in 1 .. Len(gpuOps) : GpuColorOutput(i)
  \/ \E i \in 1 .. Len(gpuOps) : GpuRenderComplete(i)
  \/ \E i \in 1 .. Len(gpuOps) : GpuPresent(i)

SpecSync == InitSync /\ [][NextSync]_vars

\* the main loop keeps calling Draw and the device and the presentation
\* engine keep working: a step that stays possible is taken
SpecSyncFair == SpecSync /\ WF_vars(NextSync)

(***************************************************************************)
(* The loop of Renderer::DrawObjects over the renderables.  A Material or  *)
(* Mesh pointer is the number of the registry entry; mesh 1 has no         *)
(* indices, the others have.                                               *)
(***************************************************************************)
RenderObjects ==
  [material : 1 .. MaxMaterials, mesh : 1 .. 2, transform : 1 .. 2]

RenderableLists ==
  UNION {[1 .. n -> RenderObjects] : n \in 0 .. MaxRenderables}

\* a command recorded for renderable i
Command(cmd, i, arg) == [cmd |-> cmd, i |-> i, arg |-> arg]

\* the commands inside `if (object.material != last_material)'
MaterialBinds(object, i, last) ==
  IF object.material # last
    THEN << Command("vkCmdBindPipeline", i, object.material),
            Command("vkCmdBindDescriptorSets", i, 0),
            Command("vkCmdBindDescriptorSets", i, 1) >>
    ELSE <<>>

\* last_material after the body: assigned inside the if
LastMaterialAfter_NotAssigned(object, last) == last

LastMaterialAfter(object, last) ==
  IF object.material # last THEN object.material ELSE last

\* const bool is_indexed_draw = !object.mesh->indices.empty()
IsIndexedMesh(msh) == msh # 1

\* the commands inside `if (object.mesh != last_mesh)'
MeshBinds(object, i, last) ==
  IF object.mesh # last
    THEN <<Command("vkCmdBindVertexBuffers", i, object.mesh)>>
           \o (IF IsIndexedMesh(object.mesh)
                 THEN <<Command("vkCmdBindIndexBuffer", i, object.mesh)>>
                 ELSE <<>>)
    ELSE <<>>

\* vkCmdDrawIndexed(cmd, indices.size(), 1, 0, 0, i) or
\* vkCmdDraw(cmd, vertices.size(), 1, 0, i): the last argument is
\* firstInstance
DrawCommand_FirstInstanceZero(object, i) ==
  [cmd |-> IF IsIndexedMesh(object.mesh) THEN "vkCmdDrawIndexed"
                                         ELSE "vkCmdDraw",
   i |-> i, arg |-> object.mesh, firstInstance |-> 0]

DrawCommand(object, i) ==
  [cmd |-> IF IsIndexedMesh(object.mesh) THEN "vkCmdDrawIndexed"
                                         ELSE "vkCmdDraw",
   i |-> i, arg |-> object.mesh, firstInstance |-> i]

\* the object-data loop: object_ssbo[i].model = object.transform for every
\* renderable, into the mapped object buffer of the frame
DrawObjectsObjectData ==
  /\ traversalPc = "object data"
  /\ object_ssbo' =
       [i \in 1 .. Len(renderables_) |-> renderables_[i].transform]
  /\ traversalPc' = "commands"
  /\ UNCHANGED <<renderables_, objectIndex, last_material, last_mesh,
                 commands, baseVars, exceptTraversal>>

\* one iteration of for (int i = 0; i < count; i++); last_mesh is assigned
\* nowhere in the loop
DrawObjectsIteration ==
  /\ traversalPc = "commands"
  /\ objectIndex < Len(renderables_)
  /\ LET object == renderables_[objectIndex + 1] IN
     /\ commands' =
          commands
            \o MaterialBinds(object, objectIndex, last_material)
            \o <<Command("vkCmdPushConstants", objectIndex, object.material)>>
            \o MeshBinds(object, objectIndex, last_mesh)
            \o <<DrawCommand(object, objectIndex)>>
     /\ last_material' = LastMaterialAfter(object, last_material)
  /\ objectIndex' = objectIndex + 1
  /\ UNCHANGED <<renderables_, last_mesh, object_ssbo, traversalPc,
                 baseVars, exceptTraversal>>

InitTraversal ==
  /\ InitBase
  /\ \E objects \in RenderableLists : TraversalVarsOf(objects)
  /\ IdleExtraVars("traversal")

NextTraversal == DrawObjectsObjectData \/ DrawObjectsIteration

SpecTraversal == InitTraversal /\ [][NextTraversal]_vars

(***************************************************************************)
(* The scene-parameter buffer: its size in Renderer::InitDescriptors and   *)
(* the dynamic offset of a frame in Renderer::DrawObjects.                 *)
(***************************************************************************)
\* sizeof(GpuSceneData): five glm::vec4
sizeofGpuSceneData == 80

\* the values minUniformBufferOffsetAlignment has on a device: a power of
\* two, small enough here that k aligned sizes stay within a size_t
DeviceAlignments == {2 ^ k : k \in 0 .. SizeBits - 2}

\* kFrameOverlap * GetAlignedBufferSize(sizeof(GpuSceneData))
SceneBufferSize(alignment) ==
  (kFrameOverlap * GetAlignedBufferSize(sizeofGpuSceneData, alignment))
    % SizeRange

\* GetAlignedBufferSize(sizeof(GpuSceneData)) * frame_index
SceneBufferOffset_Unaligned(alignment, frame_index) ==
  (sizeofGpuSceneData * frame_index) % SizeRange

SceneBufferOffset(alignment, frame_index) ==
  (GetAlignedBufferSize(sizeofGpuSceneData, alignment) * frame_index)
    % SizeRange

\* InitDescriptors creates the scene buffer
SceneInitDescriptors ==
  /\ scenePc = "InitDescriptors"
  /\ scene_parameters_buffer_size' =
       SceneBufferSize(minUniformBufferOffsetAlignment)
  /\ scenePc' = "Draw"
  /\ UNCHANGED <<minUniformBufferOffsetAlignment, uniform_offsets,
                 sceneFramenumber, baseVars, exceptScene>>

\* one Draw: DrawObjects copies the scene parameters to buffer_offset and
\* binds the global descriptor set with uniform_offset = buffer_offset;
\* Draw ends with framenumber_++
SceneDrawObjects ==
  /\ scenePc = "Draw"
  /\ sceneFramenumber < MaxSceneFrames
  /\ LET frame_index == SceneFrameIndex(sceneFramenumber)
         buffer_offset ==
           SceneBufferOffset(minUniformBufferOffsetAlignment, frame_index)
     IN uniform_offsets' =
          [slot \in DOMAIN uniform_offsets \cup {frame_index} |->
             IF slot = frame_index THEN buffer_offset
                                   ELSE uniform_offsets[slot]]
  /\ sceneFramenumber' = sceneFramenumber + 1
  /\ UNCHANGED <<minUniformBufferOffsetAlignment,
                 scene_parameters_buffer_size, scenePc, baseVars,
                 exceptScene>>

InitSceneBuffer ==
  /\ InitBase
  /\ \E alignment \in DeviceAlignments : SceneVarsOf(alignment)
  /\ IdleExtraVars("scene")

NextSceneBuffer == SceneInitDescriptors \/ SceneDrawObjects

SpecSceneBuffer == InitSceneBuffer /\ [][NextSceneBuffer]_vars

(***************************************************************************)
(* Device selection: VerifyDeviceExtensionsSupported and SelectDevice, and *)
(* the test of its result in Renderer::Init.  A device is what the Vulkan  *)
(* queries report of it.                                                   *)
(***************************************************************************)
\* VK_KHR_SWAPCHAIN_EXTENSION_NAME,
\* VK_KHR_SHADER_DRAW_PARAMETERS_EXTENSION_NAME
kDeviceExtensions ==
  <<"VK_KHR_swapchain", "VK_KHR_shader_draw_parameters">>

\* the extension names a device may report, in the order it reports them
ExtensionOrder ==
  <<"VK_KHR_maintenance1", "VK_KHR_multiview", "VK_KHR_swapchain",
    "VK_KHR_shader_draw_parameters">>

ExtensionListOf(names) ==
  LET upTo[j \in 0 .. Len(ExtensionOrder)] ==
        IF j = 0 THEN <<>>
        ELSE IF ExtensionOrder[j] \in names
               THEN Append(upTo[j - 1], ExtensionOrder[j])
               ELSE upTo[j - 1]
  IN upTo[Len(ExtensionOrder)]

ExtensionLists ==
  {ExtensionListOf(names) :
     names \in SUBSET {ExtensionOrder[j] : j \in 1 .. Len(ExtensionOrder)}}

\* a physical device: its extension list, whether GetQueueFamilyIndices
\* finds a graphics family that presents, whether GetSwapchainDetails has a
\* value and the feature and version tests pass, and what the score is
\* made of
PhysicalDevices ==
  [extensions : ExtensionLists, queue_family : BOOLEAN, features : BOOLEAN,
   discrete : BOOLEAN, maxImageDimension2D : {4096}]

DeviceLists ==
  UNION {[1 .. n -> PhysicalDevices] : n \in 0 .. MaxDevices}

\* strcmp: 0 for equal strings
Strcmp(a, b) == IF a = b THEN 0 ELSE 1

\* the inner loop: supported++ and break at the first required name for
\* which strcmp(extension.extensionName, required) is not 0
SupportedAfter(extension, supported) ==
  IF \E j \in 1 .. Len(kDeviceExtensions) :
       Strcmp(extension, kDeviceExtensions[j]) # 0
    THEN supported + 1
    ELSE supported

\* the outer loop from the idx-th available extension on
RECURSIVE VerifyLoop(_, _, _)
VerifyLoop(available, idx, supported) ==
  IF idx > Len(available) THEN FALSE
  ELSE LET now == SupportedAfter(available[idx], supported) IN
       IF now = Len(kDeviceExtensions) THEN TRUE
       ELSE VerifyLoop(available, idx + 1, now)

VerifyDeviceExtensionsSupported(dev) == VerifyLoop(dev.extensions, 1, 0)

\* the tests of SelectDevice's loop body that `continue'
PassesSelection(dev) ==
  /\ dev.queue_family
  /\ VerifyDeviceExtensionsSupported(dev)
  /\ dev.features

DeviceScore(dev) ==
  (IF dev.discrete THEN 1000 ELSE 0) + dev.maxImageDimension2D

\* SelectDevice's loop from device i (0-based) on, with max_score and
\* max_index so far
RECURSIVE SelectLoop(_, _, _, _)
SelectLoop(devices, i, max_score, max_index) ==
  IF i >= Len(devices) THEN max_index
  ELSE IF PassesSelection(devices[i + 1])
            /\ DeviceScore(devices[i + 1]) > max_score
         THEN SelectLoop(devices, i + 1, DeviceScore(devices[i + 1]), i)
         ELSE SelectLoop(devices, i + 1, max_score, max_index)

SelectDevice(devices) == SelectLoop(devices, 0, 0, NoDevice)

\* maybe_selected_device = SelectDevice(devices, surface_);
\* if (!maybe_selected_device.has_value()) return false;
SelectDeviceCall ==
  /\ selectPc = "call"
  /\ maybe_selected_device' = SelectDevice(physical_devices)
  /\ selectPc' = IF SelectDevice(physical_devices) = NoDevice
                   THEN "return false" ELSE "selected"
  /\ UNCHANGED <<physical_devices, baseVars, exceptSelect>>

InitSelect ==
  /\ InitBase
  /\ \E devices \in DeviceLists : SelectVarsOf(devices)
  /\ IdleExtraVars("select")

NextSelect == SelectDeviceCall

SpecSelect == InitSelect /\ [][NextSelect]_vars

(***************************************************************************)
(* The registrations of InitPipeline and LoadMeshes, the render objects    *)
(* InitScene builds from lookups by name, and the assertions DrawObjects   *)
(* makes on them.  A pointer into a map is the key, as in the registries.  *)
(***************************************************************************)
\* for (int i = 1; i <= 3; i++)
kSceneShibas == 3

\* for (int x = -20; x <= 20; x++) for (int z = -20; z <= 20; z++)
kSceneGrid == 20

SceneGridWidth == 2 * kSceneGrid + 1

\* "shiba_" + std::to_string(i)
ShibaName(i) == "shiba_" \o ToString(i)

\* a RenderObject built from the two lookups
SceneObject(meshName, transform) ==
  [mesh |-> Found(loadedMeshes, meshName),
   material |-> Found(loadedMaterials, "default"),
   transform |-> transform]

\* InitPipeline: CreateMaterial(mesh_pipeline_, mesh_pipeline_layout_,
\* "default")
PopulateCreateMaterial ==
  /\ populatePc = "InitPipeline"
  /\ loadedMaterials' = Assigned(loadedMaterials, "default", MaterialOf(1, 1))
  /\ populatePc' = "LoadMeshes"
  /\ UNCHANGED <<shiba_model_, loadedMeshes, sceneObjects, populateCount,
                 drawAsserts, baseVars, exceptPopulate>>

\* LoadMeshes up to the loop: the triangle is registered, the model is
\* loaded, and LoadMeshes returns false if it has no mesh
PopulateLoadModel ==
  /\ populatePc = "LoadMeshes"
  /\ loadedMeshes' = Assigned(loadedMeshes, "triangle", 1)
  /\ populatePc' = IF shiba_model_ = 0 THEN "return false" ELSE "model meshes"
  /\ populateCount' = 1
  /\ UNCHANGED <<shiba_model_, loadedMaterials, sceneObjects, drawAsserts,
                 baseVars, exceptPopulate>>

\* for (Mesh& m : shiba_model_.meshes): meshes_["shiba_" + count++] = m
PopulateRegisterModelMesh ==
  /\ populatePc = "model meshes"
  /\ loadedMeshes' =
       Assigned(loadedMeshes, ShibaName(populateCount), 1 + populateCount)
  /\ populateCount' = IF populateCount = shiba_model_ THEN 1
                      ELSE populateCount + 1
  /\ populatePc' = IF populateCount = shiba_model_ THEN "InitScene shibas"
                   ELSE "model meshes"
  /\ UNCHANGED <<shiba_model_, loadedMaterials, sceneObjects, drawAsserts,
                 baseVars, exceptPopulate>>

\* InitScene, first loop: one render object per shiba_i
PopulateShiba ==
  /\ populatePc = "InitScene shibas"
  /\ sceneObjects' =
       Append(sceneObjects, SceneObject(ShibaName(populateCount), "identity"))
  /\ populateCount' = IF populateCount = kSceneShibas THEN 0
                      ELSE populateCount + 1
  /\ populatePc' = IF populateCount = kSceneShibas THEN "InitScene triangles"
                   ELSE "InitScene shibas"
  /\ UNCHANGED <<shiba_model_, loadedMaterials, loadedMeshes, drawAsserts,
                 baseVars, exceptPopulate>>

\* InitScene, second loop: the triangle at (x, z); populateCount numbers
\* the pairs
PopulateTriangle ==
  /\ populatePc = "InitScene triangles"
  /\ LET x == (populateCount \div SceneGridWidth) - kSceneGrid
         z == (populateCount % SceneGridWidth) - kSceneGrid
     IN sceneObjects' =
          Append(sceneObjects, SceneObject("triangle", <<x, z>>))
  /\ populateCount' = populateCount + 1
  /\ populatePc' =
       IF populateCount + 1 = SceneGridWidth * SceneGridWidth THEN "Draw"
       ELSE "InitScene triangles"
  /\ UNCHANGED <<shiba_model_, loadedMaterials, loadedMeshes, drawAsserts,
                 baseVars, exceptPopulate>>

\* what assert(object.mesh); assert(object.material); and the uses of the
\* two pointers do over the render objects: with a null pointer the
\* assertion fails, or, compiled out, the pointer is dereferenced
AssertOutcomes(objects) ==
  IF \E k \in 1 .. Len(objects) :
       objects[k].mesh = "nullptr" \/ objects[k].material = "nullptr"
    THEN {"assertion failed", "null dereferenced"}
    ELSE {"hold"}

\* the first Draw's DrawObjects
PopulateDrawObjects ==
  /\ populatePc = "Draw"
  /\ drawAsserts' \in AssertOutcomes(sceneObjects)
  /\ populatePc' = "drawn"
  /\ UNCHANGED <<shiba_model_, loadedMaterials, loadedMeshes, sceneObjects,
                 populateCount, baseVars, exceptPopulate>>

InitPopulate ==
  /\ InitBase
  /\ \E n \in 0 .. MaxModelMeshes : PopulateVarsOf(n)
  /\ IdleExtraVars("populate")

NextPopulate ==
  \/ PopulateCreateMaterial
  \/ PopulateLoadModel
  \/ PopulateRegisterModelMesh
  \/ PopulateShiba
  \/ PopulateTriangle
  \/ PopulateDrawObjects

SpecPopulate == InitPopulate /\ [][NextPopulate]_vars

(***************************************************************************)
(* TaskStack objects over their lifetime: construction, move construction, *)
(* move assignment, Push, Flush and destruction.  An action is the number  *)
(* of its Push.                                                            *)
(***************************************************************************)
StackObjects == 1 .. MaxStacks

Alive(s) == taskStacks[s].life = "alive"

\* a std::vector after it was moved from: empty
MovedFromTasks == <<>>

\* tasks_ = std::move(other.tasks_): the elements the vector held are
\* destroyed, not invoked, and the vector takes over those of the other
MoveAssignedTasks_RunsOwn(own, others) == own \o others

MoveAssignedTasks(own, others) == others

MoveUnchanged == <<baseVars, exceptMove>>

\* TaskStack s;
MoveDefaultConstruct(s) ==
  /\ movePc = "run"
  /\ taskStacks[s].life = "none"
  /\ taskStacks' =
       [taskStacks EXCEPT ![s] = [life |-> "alive", tasks_ |-> <<>>]]
  /\ UNCHANGED <<movePushed, moveInvoked, movePc, MoveUnchanged>>

\* s.Push(action)
MovePush(s) ==
  /\ movePc = "run"
  /\ Alive(s)
  /\ movePushed < MaxMovePushes
  /\ movePushed' = movePushed + 1
  /\ taskStacks' =
       [taskStacks EXCEPT ![s].tasks_ = Push(@, movePushed + 1)]
  /\ UNCHANGED <<moveInvoked, movePc, MoveUnchanged>>

\* s.Flush()
MoveFlush(s) ==
  /\ movePc = "run"
  /\ Alive(s)
  /\ moveInvoked' = moveInvoked \o FlushInvocations(taskStacks[s].tasks_)
  /\ taskStacks' =
       [taskStacks EXCEPT ![s].tasks_ = FlushRemainder(@)]
  /\ UNCHANGED <<movePushed, movePc, MoveUnchanged>>

\* ~TaskStack() { Flush(); }
MoveDestroy(s) ==
  /\ movePc = "run"
  /\ Alive(s)
  /\ moveInvoked' = moveInvoked \o FlushInvocations(taskStacks[s].tasks_)
  /\ taskStacks' =
       [taskStacks EXCEPT ![s] = [life |-> "destroyed", tasks_ |-> <<>>]]
  /\ UNCHANGED <<movePushed, movePc, MoveUnchanged>>

\* TaskStack s(std::move(other)): tasks_{std::move(other.tasks_)}
MoveConstruct(s, other) ==
  /\ movePc = "run"
  /\ taskStacks[s].life = "none"
  /\ Alive(other)
  /\ taskStacks' =
       [taskStacks EXCEPT
          ![s] = [life |-> "alive", tasks_ |-> taskStacks[other].tasks_],
          ![other].tasks_ = MovedFromTasks]
  /\ UNCHANGED <<movePushed, moveInvoked, movePc, MoveUnchanged>>

\* s = std::move(other): operator= is declared to return TaskStack& and has
\* no return statement
MoveAssign(s, other) ==
  /\ movePc = "run"
  /\ s # other
  /\ Alive(s)
  /\ Alive(other)
  /\ taskStacks' =
       [taskStacks EXCEPT
          ![s].tasks_ = MoveAssignedTasks(@, taskStacks[other].tasks_),
          ![other].tasks_ = MovedFromTasks]
  /\ \E r \in AssignResults :
       movePc' = IF r = "crash" THEN "Crashed" ELSE "run"
  /\ UNCHANGED <<movePushed, moveInvoked, MoveUnchanged>>

InitMove == InitBase /\ IdleExtraVars("move")

NextMove ==
  \/ \E s \in StackObjects : MoveDefaultConstruct(s)
  \/ \E s \in StackObjects : MovePush(s)
  \/ \E s \in StackObjects : MoveFlush(s)
  \/ \E s \in StackObjects : MoveDestroy(s)
  \/ \E s, other \in StackObjects : MoveConstruct(s, other)
  \/ \E s, other \in StackObjects : MoveAssign(s, other)

SpecMove == InitMove /\ [][NextMove]_vars

(***************************************************************************)
(* The swapchain image count Init requests:                                *)
(*   std::clamp(minImageCount + 1, minImageCount, maxImageCount)           *)
(***************************************************************************)
ImageCountModulus == 2 ^ ImageCountBits

\* the limits a surface reports: at least one image; maxImageCount is 0 for
\* no upper limit and is not below minImageCount otherwise
SurfaceLimits ==
  {limits \in (1 .. ImageCountModulus - 1) \X (0 .. ImageCountModulus - 1) :
     limits[2] = 0 \/ limits[2] >= limits[1]}

\* std::clamp(v, lo, hi): behaviour is undefined when hi < lo; the library
\* then either stops at its precondition assertion or returns hi, which
\* min(max(v, lo), hi) and `v < lo ? lo : hi < v ? hi : v' both give for
\* lo <= v
ClampOutcomes(v, lo, hi) ==
  IF hi < lo
    THEN {[aborted |-> TRUE, value |-> v], [aborted |-> FALSE, value |-> hi]}
    ELSE {[aborted |-> FALSE,
           value |-> IF v < lo THEN lo ELSE IF hi < v THEN hi ELSE v]}

\* uint32_t image_count = std::clamp(...);
\* swapchain_info.minImageCount = image_count;
InitImageCount ==
  /\ imageCountPc = "clamp"
  /\ \E r \in ClampOutcomes((minImageCount + 1) % ImageCountModulus,
                            minImageCount, maxImageCount) :
       \/ /\ r.aborted
          /\ imageCountPc' = "Aborted"
          /\ UNCHANGED image_count
       \/ /\ ~r.aborted
          /\ image_count' = r.value
          /\ imageCountPc' = "requested"
  /\ UNCHANGED <<minImageCount, maxImageCount, baseVars, exceptImageCount>>

InitImageCountSpec ==
  /\ InitBase
  /\ \E limits \in SurfaceLimits : ImageCountVarsOf(limits[1], limits[2])
  /\ IdleExtraVars("image count")

NextImageCount == InitImageCount

SpecImageCount == InitImageCountSpec /\ [][NextImageCount]_vars

(***************************************************************************)
(* Properties of util::TaskStack.                                          *)
(***************************************************************************)
Reverse(s) == [j \in 1 .. Len(s) |-> s[Len(s) + 1 - j]]

NoDuplicates(s) == \A j, k \in 1 .. Len(s) : s[j] = s[k] => j = k

\* C1: a Flush invokes every action registered since the previous Flush
\* exactly once, in the reverse of the order in which they were pushed.
C1_FlushReverseOrder ==
  lastOp = "Flush" => flushInvoked = Reverse(flushRegistered)

C1_Witness ==
  /\ lastOp = "Flush"
  /\ Len(flushRegistered) >= 3
  /\ flushInvoked = Reverse(flushRegistered)
  /\ flushInvoked # flushRegistered

\* C2: after a Flush the registry is empty, a Flush that directly follows a
\* Flush invokes nothing, and over any sequence of Push and Flush calls no
\* registered action is invoked twice.
C2_FlushIdempotent ==
  /\ lastOp = "Flush" => tasks_ = <<>>
  /\ (lastOp = "Flush" /\ prevOp = "Flush") => flushInvoked = <<>>
  /\ NoDuplicates(calls)

C2_Witness ==
  /\ lastOp = "Flush"
  /\ prevOp = "Flush"
  /\ Len(calls) >= 2
  /\ flushInvoked = <<>>

(***************************************************************************)
(* Properties of the frame lifecycle.                                      *)
(***************************************************************************)
DrawPcs == {DrawSteps[j] : j \in 1 .. Len(DrawSteps)}

CalledIn(trace, step) == \E j \in 1 .. Len(trace) : trace[j][1] = step

\* C3: a Draw resets and re-records its slot's command buffer only after its
\* own wait on the slot's render fence returned VK_SUCCESS, and a command
\* buffer whose submission is still executing is never reset or recorded.
C3_ResetAfterFence ==
  /\ (CalledIn(drawTrace, "vkResetCommandBuffer") \/
      CalledIn(drawTrace, "vkBeginCommandBuffer")) => fenceObserved
  /\ \A i \in Slots : gpuPending[i] => command_buffer[i] = "pending"

C3_Witness ==
  /\ pc = "vkBeginCommandBuffer"
  /\ Len(okSlots) >= 2
  /\ command_buffer[frameSlot] = "initial"
  /\ gpuPending[1 - frameSlot]

\* C4: every buffer region DrawObjects writes belongs to the slot whose fence
\* the Draw waited on, is written after that wait succeeded, and is read by
\* no submission that is still executing.
C4_WritesAfterWait ==
  cpuWrites # {} =>
    /\ fenceObserved
    /\ \A w \in cpuWrites :
         /\ w[2] = frameSlot
         /\ ~gpuPending[w[2]]
         /\ \A i \in Slots : gpuPending[i] => w \notin cmdReads[i]

C4_Witness ==
  /\ cpuWrites # {}
  /\ Len(okSlots) >= 2
  /\ gpuPending[1 - frameSlot]
  /\ cmdReads[1 - frameSlot] # {}

\* C5: the frame counter starts at 0 and equals the number of Draws all of
\* whose steps succeeded; a Draw uses slot framenumber_ mod 2, so the
\* successful Draws use the slots 0, 1, 0, 1, ...
C5_FrameCounter ==
  /\ framenumber_ = Len(okSlots)
  /\ \A j \in 1 .. Len(okSlots) : okSlots[j] = (j - 1) % 2
  /\ pc \in DrawPcs => frameSlot = framenumber_ % 2

C5_Witness ==
  /\ framenumber_ >= 3
  /\ Len(okSlots) >= 3
  /\ draws > framenumber_

\* C6: no step of a Draw is executed after a step that failed, and a Draw in
\* which a step failed has returned with the frame counter unchanged.
C6_FailedStepReturns ==
  /\ \A j \in 1 .. Len(drawTrace) - 1 : drawTrace[j][2] = "VK_SUCCESS"
  /\ LastDrawFailed => (pc \notin DrawPcs /\ framenumber_ = frameAtEntry)

C6_Witness ==
  /\ LastDrawFailed
  /\ pc = "MainLoop"
  /\ drawTrace[Len(drawTrace)][1] = "vkEndCommandBuffer"
  /\ framenumber_ >= 1

\* C7: a Draw that follows a failed Draw and in which no call fails on its
\* own account runs to completion and advances the frame counter.
C7_FailureIsTransient ==
  (pc = "MainLoop" /\ draws >= 2 /\ prevFailed /\ ~faulted) =>
    (AllSucceeded(drawTrace) /\ framenumber_ = frameAtEntry + 1)

\* C8: Shutdown reaches the flush only after it observed the render fence of
\* every slot signaled (then no submission is outstanding), and a Shutdown in
\* which a wait failed has run no destroy action.
C8_ShutdownWaitsForFences ==
  /\ pc = "sd_flush" => (sdObserved = Slots /\ ~sdWaitFailed)
  /\ (pc = "sd_flush" /\ \A i \in Slots : FenceHandlesValid(i)) =>
       \A i \in Slots : render_fence[i] = "signaled" /\ ~gpuPending[i]
  /\ (pc = "AfterShutdown" /\ sdWaitFailed) => Len(calls) = sdCallsBefore

C8_Witness ==
  /\ pc = "sd_flush"
  /\ initialized_
  /\ framenumber_ >= 2
  /\ deletion_stack_ # <<>>
  /\ sdObserved = Slots

\* C9: no destroy action runs while a frame slot has a submission
\* outstanding: the objects an executing submission uses are alive.
C9_NoDestroyWhileBusy ==
  \A i \in Slots :
    gpuPending[i] =>
      {Obj("device", 0), Obj("render_fence", i), Obj("command_pool", i)}
        \subseteq live

\* C10: after a successful Init, a Shutdown whose waits succeed runs every
\* registered destroy action; no destroy action runs twice, and no call of
\* Shutdown is handed an object that was already destroyed.
C10_ShutdownRepeatable ==
  (initialized_ /\ initReturn = "true" /\ failedSteps = {}) =>
    /\ ~invalidUse
    /\ pc # "Crashed"
    /\ NoDuplicates(calls)
    /\ (pc = "AfterShutdown" /\ ~sdWaitFailed) => deletion_stack_ = <<>>

(***************************************************************************)
(* Properties of Renderer::Init and of the teardown that follows it.       *)
(***************************************************************************)
\* a command buffer has no destroy call of its own: it is freed with its pool
FreedWithPool(o) == o[1] \in {"command_buffer", "upload_command_buffer"}

\* the position in InitSteps of the step that creates object o
CreationStep(o) ==
  CHOOSE j \in 1 .. Len(InitSteps) :
    InitSteps[j].creates /\ InitSteps[j].obj = o

\* the objects Init has created so far
CreatedSoFar ==
  {InitSteps[j].obj : j \in {k \in 1 .. initStep - 1 : InitSteps[k].creates}}
    \ failedSteps

\* the invocation of the flush that destroyed object o
DestroyCall(o) == CHOOSE j \in 1 .. Len(calls) : o \in calls[j]

Destroyed == DestroyedBy(calls)

\* C11: when Init returned false and main() called Shutdown, Shutdown is
\* handed no object that was never created, and once it has returned every
\* object Init created is destroyed, exactly once, later-created objects
\* first.
C11_FailedInitUnwinds ==
  (initReturn = "false" /\ ~initialized_) =>
    /\ ~invalidUse
    /\ pc # "Crashed"
    /\ \A j, k \in 1 .. Len(calls) : j # k => calls[j] \cap calls[k] = {}
    /\ pc = "AfterShutdown" =>
         /\ \A o \in CreatedSoFar : FreedWithPool(o) \/ o \in Destroyed
         /\ \A a, b \in CreatedSoFar \cap Destroyed :
              CreationStep(a) < CreationStep(b) =>
                DestroyCall(b) <= DestroyCall(a)

\* C12: while Init runs and when it has returned, every live object Init
\* created has a destroy action on deletion_stack_.
C12_RegisteredBeforeNext ==
  (pc \in {"Init", "InitFailed", "MainLoop"} /\ shutdownCalls = 0) =>
    \A o \in live : FreedWithPool(o) \/ o \in DestroyedBy(deletion_stack_)

\* the objects made by the allocator
AllocatorObjects ==
  {"depth_image", "scene_parameters_buffer", "object_buffer", "camera_buffer",
   "triangle_vertex_buffer", "shiba_vertex_buffer", "shiba_index_buffer",
   "texture_image"}

\* object a has to be destroyed before object b
MustPrecede(a, b) ==
  \/ a[1] = "mesh_pipeline" /\ b[1] = "mesh_pipeline_layout"
  \/ a[1] = "mesh_pipeline_layout" /\
       b[1] \in {"global_set_layout", "object_set_layout"}
  \/ a[1] \in AllocatorObjects /\ b[1] = "allocator"
  \/ a[1] \notin {"instance", "surface", "device"} /\ b[1] = "device"
  \/ a[1] \in {"device", "surface"} /\ b[1] = "instance"

\* the kinds of object MustPrecede names on its right-hand side
DependedOn ==
  {"mesh_pipeline_layout", "global_set_layout", "object_set_layout",
   "allocator", "device", "instance"}

AllStepsSucceeded == initStep > Len(InitSteps) /\ failedSteps = {}

\* C13: in the flush after a successful Init the pipeline is destroyed
\* before its layout, the pipeline layout before the descriptor-set layouts,
\* every buffer and image before the allocator, everything made from the
\* device before the device, and device and surface before the instance.
C13_DestroyOrder ==
  initialized_ =>
    \A k \in 1 .. Len(calls) :
      \A b \in calls[k] :
        b[1] \in DependedOn =>
          \A j \in 1 .. Len(calls) :
            \A a \in calls[j] : MustPrecede(a, b) => j < k

C13_Witness ==
  /\ pc = "AfterShutdown"
  /\ initReturn = "true"
  /\ AllStepsSucceeded
  /\ framenumber_ >= 1
  /\ Obj("mesh_pipeline", 0) \in Destroyed
  /\ Obj("texture_image", 0) \in Destroyed
  /\ Obj("instance", 0) \in Destroyed
  /\ \A o \in live : FreedWithPool(o)

\* C14: a step of Init whose call failed ends Init with the return value
\* false: the process is not aborted and Init does not go on to later steps.
C14_InitFailureStops ==
  failedSteps # {} => (pc # "Aborted" /\ pc # "Init" /\ initReturn = "false")

\* C15: Init returns true exactly when every step succeeded, and
\* initialized_ is true exactly when Init returned true.
C15_InitReturnsSuccess ==
  initReturn # "none" =>
    /\ (initReturn = "true") <=> AllStepsSucceeded
    /\ initialized_ <=> (initReturn = "true")

(***************************************************************************)
(* Properties of QueueSubmitter::SubmitImmediate.                          *)
(***************************************************************************)
LastSubmitStep == uploadTrace[Len(uploadTrace)]

TestedStepFailed ==
  /\ uploadTrace # <<>>
  /\ LastSubmitStep[1] \in SubmitTested
  /\ LastSubmitStep[2] # "VK_SUCCESS"

\* C16: a SubmitImmediate whose fence wait ran out before the fence
\* signaled makes no further call and does not return as if the upload were
\* done.
C16_TimeoutSurfaced ==
  upWaitResult = "VK_TIMEOUT" =>
    upPc \notin {"vkResetFences", "vkResetCommandPool", "vmaDestroyBuffer",
                 "vkCreateImageView", "idle"}

\* C17: the submission of an upload whose SubmitImmediate has returned is
\* no longer executing, the staging buffer of an executing upload exists,
\* and neither the fence nor the command pool was reset while an upload
\* executed.
C17_ReturnMeansComplete ==
  /\ \A u \in upReturned : u \notin uploadPending
  /\ uploadPending \subseteq stagingLive
  /\ ~upResetBusy

\* C18: no step of SubmitImmediate follows a failed begin, end or submit:
\* the callback does not run after a failed begin, nothing is submitted
\* after a failed end, and no wait or reset follows a failed submit.
C18_FailedStepAborts ==
  /\ \A j \in 1 .. Len(uploadTrace) - 1 :
       uploadTrace[j][1] \in SubmitTested => uploadTrace[j][2] = "VK_SUCCESS"
  /\ TestedStepFailed =>
       /\ upPc = "Aborted"
       /\ uploads \notin uploadPending
       /\ uploads \notin upReturned

C18_Witness ==
  /\ upPc = "Aborted"
  /\ uploads >= 2
  /\ TestedStepFailed
  /\ LastSubmitStep[1] = "vkEndCommandBuffer"
  /\ Len(uploadTrace) = 3

\* C19: at most one upload executes at a time, none executes while the next
\* call records, and between calls the upload fence is unsignaled and the
\* upload command buffer is in the initial state.
C19_OneUploadInFlight ==
  /\ Cardinality(uploadPending) <= 1
  /\ upPc \in {"vkBeginCommandBuffer", "function", "vkEndCommandBuffer"} =>
       uploadPending = {}
  /\ (upPc = "idle" /\ uploads > 0) =>
       (upload_fence = "unsignaled" /\ upload_command_buffer = "initial")

(***************************************************************************)
(* Properties of vk::Texture.                                              *)
(***************************************************************************)
\* the Texture objects that would destroy image g in their destructor
Owners(g) ==
  {t \in TexObjs : /\ textures[t].life = "alive"
                   /\ textures[t].allocator_ # Null
                   /\ textures[t].image_ = g}

ImagesCreated == 1 .. (nextImage - 1)

\* C20: over any sequence of Texture constructions, moves, assignments and
\* destructions every image and view is destroyed at most once, an image
\* that is not yet destroyed has exactly one owner, a destroyed one has
\* none, and a Texture without an allocator holds no image.
C20_SingleOwner ==
  /\ \A g \in ImageIds : imageDestroys[g] <= 1 /\ viewDestroys[g] <= 1
  /\ \A g \in ImagesCreated :
       /\ imageDestroys[g] = viewDestroys[g]
       /\ Cardinality(Owners(g)) = 1 - imageDestroys[g]
  /\ \A t \in TexObjs :
       (textures[t].life = "alive" /\ textures[t].allocator_ = Null) =>
         (textures[t].image_ = Null /\ textures[t].image_view_ = Null)

(***************************************************************************)
(* Properties of Renderer::UploadMesh.                                     *)
(***************************************************************************)
\* C21: after UploadMesh returned true and its copies finished, the vertex
\* buffer holds the mesh's vertices in order; a mesh with indices has an
\* index buffer holding its indices in order and is drawn indexed; a mesh
\* without indices has no index buffer and is drawn non-indexed.
C21_UploadedMeshMatches ==
  (meshPc = "true" /\ copiesDone) =>
    /\ vertex_buffer = mesh.vertices
    /\ mesh.indices # <<>> =>
         (index_buffer = mesh.indices /\ meshDraw # "vkCmdDraw")
    /\ mesh.indices = <<>> =>
         (index_buffer = "none" /\ meshDraw # "vkCmdDrawIndexed")
(***************************************************************************)
(* Properties of Renderer::GetAlignedBufferSize.                           *)
(***************************************************************************)
\* an alignment the masking works for: one bit set
RECURSIVE IsPowerOfTwo(_)
IsPowerOfTwo(a) ==
  IF a <= 1 THEN a = 1 ELSE a % 2 = 0 /\ IsPowerOfTwo(a \div 2)

\* C22 as stated: for every size and every alignment a > 0 the aligned size
\* is a multiple of a and is at least the size.
C22_AlignedIsMultiple ==
  (alignPc = "returned" /\ min_alignment > 0) =>
    /\ aligned_size % min_alignment = 0
    /\ aligned_size >= original_size

\* C22, amended: for every alignment a that is a power of two and every size
\* for which size + a - 1 is representable, the aligned size is a multiple
\* of a and is at least the size.
C22_AlignedIsMultiple_Amended ==
  (/\ alignPc = "returned"
   /\ IsPowerOfTwo(min_alignment)
   /\ original_size + min_alignment - 1 < SizeRange) =>
    /\ aligned_size % min_alignment = 0
    /\ aligned_size >= original_size

\* a = 256: 200 -> 256
C22_Witness ==
  /\ alignPc = "returned"
  /\ min_alignment = 256
  /\ original_size = 200
  /\ aligned_size = 256

\* C23: for every size and every alignment a > 0 the aligned size is less
\* than size + a, and aligning the aligned size returns it unchanged.
C23_NextMultipleOnly ==
  (alignPc = "returned" /\ min_alignment > 0) =>
    /\ aligned_size < original_size + min_alignment
    /\ GetAlignedBufferSize(aligned_size, min_alignment) = aligned_size

\* a size that is not aligned was rounded up to an aligned one
C23_Witness ==
  /\ alignPc = "returned"
  /\ min_alignment > 1
  /\ aligned_size > original_size
  /\ GetAlignedBufferSize(aligned_size, min_alignment) = aligned_size
(***************************************************************************)
(* Properties of the registries.                                           *)
(***************************************************************************)
\* the positions of the registrations made in `map' under `name'
RegistrationsOf(map, name) ==
  {i \in 1 .. Len(registered_) :
     registered_[i].map = map /\ registered_[i].name = name}

\* the value registered last under `name'
LatestRegistered(map, name) ==
  LET at == RegistrationsOf(map, name)
      last == CHOOSE i \in at : \A j \in at : j <= i
  IN registered_[last].value

\* a lookup of `name' that returned ret from `map' returned the latest value
\* registered under the name, or nullptr when there is none
LookupAnswers(mapName, map, name, ret) ==
  IF RegistrationsOf(mapName, name) = {}
    THEN ret = "nullptr"
    ELSE ret # "nullptr" /\ map[ret] = LatestRegistered(mapName, name)

\* C24: GetMaterial(name) returns the pipeline/layout pair registered last
\* under the name by CreateMaterial; GetMaterial or GetMesh of a name never
\* registered returns null; no lookup changes a registry.
C24_RegistryLookup ==
  /\ registryCall.op = "CreateMaterial" =>
       materials_[registryCall.ret] = registryCall.value
  /\ registryCall.op = "GetMaterial" =>
       /\ LookupAnswers("materials_", materials_, registryCall.name,
                        registryCall.ret)
       /\ materials_ = registryCall.materialsBefore
       /\ meshes_ = registryCall.meshesBefore
  /\ registryCall.op = "GetMesh" =>
       /\ LookupAnswers("meshes_", meshes_, registryCall.name,
                        registryCall.ret)
       /\ materials_ = registryCall.materialsBefore
       /\ meshes_ = registryCall.meshesBefore

\* a name registered twice looked up, after a lookup of a missing name
C24_Witness ==
  /\ registryCall.op = "GetMaterial"
  /\ Cardinality(RegistrationsOf("materials_", registryCall.name)) = 2
  /\ registryCall.ret = registryCall.name
  /\ "missing" \notin DOMAIN materials_
  /\ "missing" \notin DOMAIN meshes_
(***************************************************************************)
(* Properties of LoadTexture.                                              *)
(***************************************************************************)
\* C25: for a 3-channel image of W x H pixels the expanded buffer has
\* exactly W * H * 4 bytes, byte 4p + j of it equals source byte 3p + j for
\* every pixel p and channel j in 0..2, and the staging buffer is created
\* with exactly that size.
C25_RgbExpansion ==
  (image.component = 3 /\ loadPc \in {"returned", "Crashed"}) =>
    /\ Len(buffer) = image.width * image.height * 4
    /\ buffer_size = image.width * image.height * 4
    /\ \A p \in 0 .. image.width * image.height - 1 :
         \A j \in 0 .. 2 : buffer[4 * p + j + 1] = image.image[3 * p + j + 1]
    /\ staging_buffer.size = image.width * image.height * 4

\* an image of several pixels whose pixels differ was expanded and staged
C25_Witness ==
  /\ image.component = 3
  /\ loadPc = "returned"
  /\ image.width * image.height = MaxPixels
  /\ image.image[1] # image.image[4]
  /\ staging_buffer.data = buffer
(***************************************************************************)
(* Properties of the earlier renderer's ToggleShader.                      *)
(***************************************************************************)
\* the three variants, by selection
VariantPipeline ==
  <<"triangle_pipeline_", "colored_triangle_pipeline_", "mesh_pipeline_">>

\* C26: after n ToggleShader calls the selection is n mod 3, it is always
\* one of 0, 1, 2, and every Draw that records binds exactly the pipeline of
\* the selection it runs with.
C26_ToggleCycles ==
  /\ selected_shader_ = toggles % 3
  /\ selected_shader_ \in {0, 1, 2}
  /\ \A i \in 1 .. Len(toggleDraws) :
       toggleDraws[i].recorded =>
         /\ toggleDraws[i].selected \in {0, 1, 2}
         /\ toggleDraws[i].pipelines =
              <<VariantPipeline[toggleDraws[i].selected + 1]>>

\* three toggles are back at the start, with a Draw under each variant
C26_Witness ==
  /\ toggles = 3
  /\ selected_shader_ = 0
  /\ Len(toggleDraws) = 3
  /\ \A i \in 1 .. 3 :
       toggleDraws[i].recorded /\ toggleDraws[i].selected = i - 1
(***************************************************************************)
(* Properties of the order of the calls of an upload.                      *)
(***************************************************************************)
\* the names of the calls made so far
CallNames(made) == [i \in 1 .. Len(made) |-> made[i].call]

IsSubmitImmediateCall(c) ==
  c.call \in {"vkBeginCommandBuffer", "function", "vkEndCommandBuffer",
              "vkQueueSubmit", "vkWaitForFences", "vkResetFences",
              "vkResetCommandPool"}

\* the calls SubmitImmediate itself made in the current upload
SubmitImmediateCalls == SelectSeq(uploadCalls, IsSubmitImmediateCall)

\* SubmitImmediate has returned to the Texture constructor
SubmitImmediateReturned ==
  /\ uploads > 0
  /\ upPc \in {"vmaDestroyBuffer", "vkCreateImageView", "idle"}

\* C27: a SubmitImmediate that returned has made exactly these calls, in
\* this order: begin the upload command buffer, the callback with that
\* buffer, end the buffer, submit it with no wait and no signal semaphore
\* and the upload fence, wait on the upload fence, reset it, reset the
\* upload command pool.
C27_SubmitOrder ==
  SubmitImmediateReturned =>
    LET made == SubmitImmediateCalls IN
    /\ CallNames(made) =
         << "vkBeginCommandBuffer", "function", "vkEndCommandBuffer",
            "vkQueueSubmit", "vkWaitForFences", "vkResetFences",
            "vkResetCommandPool" >>
    /\ \A i \in 1 .. 4 : made[i].on = "upload_context_.command_buffer"
    /\ made[4].waitSemaphores = 0
    /\ made[4].signalSemaphores = 0
    /\ made[4].fence = "upload_context_.fence"
    /\ made[5].on = "upload_context_.fence"
    /\ made[6].on = "upload_context_.fence"
    /\ made[7].on = "upload_context_.command_pool"

\* the second upload's SubmitImmediate has just returned, its work done
C27_Witness ==
  /\ uploads = 2
  /\ upPc = "vmaDestroyBuffer"
  /\ upWaitResult = "VK_SUCCESS"
  /\ uploadPending = {}

\* the calls of one Texture construction
TextureUploadCalls ==
  << "CreateBuffer", "memcpy", "vmaCreateImage", "vkBeginCommandBuffer",
     "function", "vkCmdPipelineBarrier", "vkCmdCopyBufferToImage",
     "vkCmdPipelineBarrier", "vkEndCommandBuffer", "vkQueueSubmit",
     "vkWaitForFences", "vkResetFences", "vkResetCommandPool",
     "vmaDestroyBuffer", "vkCreateImageView" >>

\* C28: a texture upload fills the staging buffer, creates the image,
\* records in one submission the barrier undefined -> transfer-destination,
\* the copy and the barrier transfer-destination -> shader-read-only,
\* destroys the staging buffer only after SubmitImmediate returned and
\* creates the image view last.
C28_TextureUploadOrder ==
  LET names == CallNames(uploadCalls)
      n == Len(uploadCalls)
  IN
  /\ n <= Len(TextureUploadCalls)
  /\ names = SubSeq(TextureUploadCalls, 1, n)
  /\ (upPc = "idle" /\ uploads > 0) => n = Len(TextureUploadCalls)
  /\ n >= 8 =>
       /\ uploadCalls[6].oldLayout = "UNDEFINED"
       /\ uploadCalls[6].newLayout = "TRANSFER_DST_OPTIMAL"
       /\ uploadCalls[7].newLayout = "TRANSFER_DST_OPTIMAL"
       /\ uploadCalls[8].oldLayout = "TRANSFER_DST_OPTIMAL"
       /\ uploadCalls[8].newLayout = "SHADER_READ_ONLY_OPTIMAL"
       /\ \A i \in 6 .. 8 : uploadCalls[i].on = "image_.image"
  /\ Cardinality({i \in 1 .. Len(SubmitImmediateCalls) :
                    SubmitImmediateCalls[i].call = "vkQueueSubmit"}) <= 1
  /\ upPc \in {"vkBeginCommandBuffer", "function", "vkEndCommandBuffer",
               "vkQueueSubmit", "vkWaitForFences", "vkResetFences",
               "vkResetCommandPool", "vmaDestroyBuffer"} =>
       uploads \in stagingLive
  /\ n >= 14 => uploads \in upReturned

\* a second texture has been uploaded completely
C28_Witness ==
  /\ uploads = 2
  /\ upPc = "idle"
  /\ Len(uploadCalls) = Len(TextureUploadCalls)
  /\ upWaitResult = "VK_SUCCESS"
  /\ stagingLive = {}
(***************************************************************************)
(* Properties of the synchronization of a frame.                           *)
(***************************************************************************)
\* an event of `kind' for Draw d is among the first n events
Happened(kind, d, n) ==
  \E j \in 1 .. n : gpuEvents[j].kind = kind /\ gpuEvents[j].draw = d

\* C29: for every submitted frame the acquired image became available, the
\* slot's present semaphore signaling, before the frame's color attachment
\* output begins; rendering completed, the slot's render semaphore
\* signaling, before the presentation of the image begins; and the slot's
\* render fence signals on completion of that submission.
C29_FrameOrdering ==
  \A i \in 1 .. Len(gpuEvents) :
    LET e == gpuEvents[i] IN
    /\ e.kind = "image available" =>
         e.signals = <<PresentSemaphore(e.slot)>>
    /\ e.kind = "color output" =>
         /\ Happened("image available", e.draw, i - 1)
         /\ e.waits = <<PresentSemaphore(e.slot)>>
    /\ e.kind = "render complete" =>
         /\ Happened("color output", e.draw, i - 1)
         /\ e.signals = <<RenderSemaphore(e.slot)>>
         /\ e.fence = <<e.slot>>
    /\ e.kind = "present" =>
         /\ Happened("render complete", e.draw, i - 1)
         /\ e.waits = <<RenderSemaphore(e.slot)>>
         /\ \E j \in 1 .. i - 1 :
              /\ gpuEvents[j].kind = "image available"
              /\ gpuEvents[j].draw = e.draw
              /\ gpuEvents[j].image = e.image
(***************************************************************************)
(* Properties of the traversal of Renderer::DrawObjects.                   *)
(***************************************************************************)
\* the commands named cmd recorded for renderable i
RecordedFor(cmd, i) ==
  {k \in 1 .. Len(commands) : commands[k].cmd = cmd /\ commands[k].i = i}

\* the renderables visited so far whose Material differs from that of the
\* renderable before them; the first one always does
MaterialChanges ==
  {i \in 0 .. objectIndex - 1 :
     i = 0 \/ renderables_[i + 1].material # renderables_[i].material}

\* C30: the pipeline and the two descriptor sets are bound for renderable i
\* exactly when i = 0 or its Material differs from that of renderable
\* i - 1, so the pipeline binds number as many as the Material changes.
C30_BindOnMaterialChange ==
  /\ \A i \in 0 .. objectIndex - 1 :
       LET n == IF i \in MaterialChanges THEN 1 ELSE 0 IN
       /\ Cardinality(RecordedFor("vkCmdBindPipeline", i)) = n
       /\ Cardinality(RecordedFor("vkCmdBindDescriptorSets", i)) = 2 * n
       /\ \A k \in RecordedFor("vkCmdBindPipeline", i) :
            commands[k].arg = renderables_[i + 1].material
  /\ Cardinality({k \in 1 .. Len(commands) :
                    commands[k].cmd = "vkCmdBindPipeline"})
       = Cardinality(MaterialChanges)

\* a traversal with a repeated Material and a change of Material is done
C30_Witness ==
  /\ objectIndex = Len(renderables_)
  /\ objectIndex = MaxRenderables
  /\ renderables_[1].material = renderables_[2].material
  /\ renderables_[2].material # renderables_[3].material
  /\ Cardinality(MaterialChanges) = 2

\* the positions at which the Mesh changes (position 0 included)
MeshChanges ==
  {i \in 0 .. objectIndex - 1 :
     i = 0 \/ renderables_[i + 1].mesh # renderables_[i].mesh}

\* C31: the vertex buffer is bound for renderable i exactly when i = 0 or
\* its Mesh differs from that of renderable i - 1, so the vertex-buffer
\* binds number as many as the Mesh changes and consecutive renderables
\* sharing a Mesh cause one bind.
C31_BindOnMeshChange ==
  /\ \A i \in 0 .. objectIndex - 1 :
       Cardinality(RecordedFor("vkCmdBindVertexBuffers", i))
         = IF i \in MeshChanges THEN 1 ELSE 0
  /\ Cardinality({k \in 1 .. Len(commands) :
                    commands[k].cmd = "vkCmdBindVertexBuffers"})
       = Cardinality(MeshChanges)

\* the last command of the given name recorded before position k (0: none)
LastBefore(name, k) ==
  LET before == {j \in 1 .. k - 1 : commands[j].cmd = name} IN
  IF before = {} THEN 0
  ELSE CHOOSE j \in before : \A other \in before : other <= j

\* the positions of the draw commands
DrawsRecorded ==
  {k \in 1 .. Len(commands) :
     commands[k].cmd \in {"vkCmdDraw", "vkCmdDrawIndexed"}}

\* C32: when the draw command of renderable i is recorded, the pipeline
\* bound last is its Material's and the vertex buffer (and, for an indexed
\* Mesh, the index buffer) bound last is its Mesh's; the draw is indexed
\* exactly when the Mesh has indices, its firstInstance is i, and record i
\* of the object buffer holds the renderable's transform. Every renderable
\* traversed has one draw command.
C32_DrawUsesOwnState ==
  /\ \A i \in 0 .. objectIndex - 1 :
       Cardinality({k \in DrawsRecorded : commands[k].i = i}) = 1
  /\ \A k \in DrawsRecorded :
       LET i == commands[k].i
           object == renderables_[i + 1]
           pipeline == LastBefore("vkCmdBindPipeline", k)
           vertices == LastBefore("vkCmdBindVertexBuffers", k)
           indices == LastBefore("vkCmdBindIndexBuffer", k)
       IN /\ pipeline # 0
          /\ commands[pipeline].arg = object.material
          /\ vertices # 0
          /\ commands[vertices].arg = object.mesh
          /\ (commands[k].cmd = "vkCmdDrawIndexed")
               <=> IsIndexedMesh(object.mesh)
          /\ IsIndexedMesh(object.mesh)
               => indices # 0 /\ commands[indices].arg = object.mesh
          /\ commands[k].firstInstance = i
          /\ object_ssbo[i + 1] = object.transform

\* a traversal is done in which the Material, the Mesh and the transform
\* change and the Mesh goes from indexed to not indexed
C32_Witness ==
  /\ objectIndex = Len(renderables_)
  /\ objectIndex = MaxRenderables
  /\ renderables_[1].material # renderables_[2].material
  /\ IsIndexedMesh(renderables_[1].mesh)
  /\ ~IsIndexedMesh(renderables_[2].mesh)
  /\ renderables_[2].mesh = renderables_[3].mesh
  /\ renderables_[1].transform # renderables_[2].transform
  /\ Cardinality(DrawsRecorded) = MaxRenderables

\* the bytes [offset, offset + sizeof(GpuSceneData)) of two offsets share
\* nothing
DisjointSceneRegions(a, b) ==
  a + sizeofGpuSceneData <= b \/ b + sizeofGpuSceneData <= a

\* C33: the dynamic offset bound for slot i is i times the aligned size of
\* the scene data; it is a multiple of minUniformBufferOffsetAlignment, the
\* regions of different slots are disjoint, and offset + sizeof scene data
\* does not exceed the scene buffer's size.
C33_SceneOffsets ==
  LET a == minUniformBufferOffsetAlignment
      aligned == GetAlignedBufferSize(sizeofGpuSceneData, a)
  IN /\ DOMAIN uniform_offsets \subseteq 0 .. kFrameOverlap - 1
     /\ aligned % a = 0
     /\ aligned >= sizeofGpuSceneData
     /\ \A i \in DOMAIN uniform_offsets :
          /\ uniform_offsets[i] = i * aligned
          /\ uniform_offsets[i] % a = 0
          /\ uniform_offsets[i] + sizeofGpuSceneData
               <= scene_parameters_buffer_size
          /\ \A j \in DOMAIN uniform_offsets \ {i} :
               DisjointSceneRegions(uniform_offsets[i], uniform_offsets[j])

\* both slots have been drawn with on a device whose alignment is neither 1
\* nor a divisor of the scene data's size
C33_Witness ==
  /\ DOMAIN uniform_offsets = 0 .. kFrameOverlap - 1
  /\ minUniformBufferOffsetAlignment = 64
  /\ uniform_offsets[1] = 128
  /\ sceneFramenumber > kFrameOverlap

\* the creation call of the object has been made (it may have failed)
Reached(o) == o \in live \cup failedSteps

\* no object of `later' is reached before every object of `earlier' is
Before(earlier, later) ==
  (\E b \in later : Reached(b)) => \A a \in earlier : Reached(a)

\* the device, allocator, swapchain and depth objects, one stage each
DeviceStages ==
  [j \in 1 .. 7 |->
     {Obj(<<"instance", "surface", "device", "allocator", "swapchain",
            "depth_image", "depth_image_view">>[j], 0)}]

FrameCommandObjects ==
  {Obj(name, i) : name \in {"command_pool", "command_buffer"}, i \in Slots}

FrameSyncObjects ==
  {Obj(name, i) :
     name \in {"render_fence", "render_semaphore", "present_semaphore"},
     i \in Slots}

RenderPassObjects == {Obj("renderpass", 0)}

FramebufferObjects == {Obj("framebuffer", j) : j \in 0 .. NumSwapImages - 1}

DescriptorObjects ==
  {Obj(name, 0) :
     name \in {"descriptor_pool", "global_set_layout", "object_set_layout"}}

PipelineObjects == {Obj("mesh_pipeline_layout", 0), Obj("mesh_pipeline", 0)}

AssetObjects ==
  {LoadMeshesSteps[j].obj : j \in {k \in 1 .. Len(LoadMeshesSteps) :
                                     LoadMeshesSteps[k].creates}}

\* the stages follow one another while Init runs, and the scene is
\* populated after the last creation step
InOrder(stages) ==
  /\ pc = "Init" =>
       \A k \in 1 .. Len(stages) - 1 : Before(stages[k], stages[k + 1])
  /\ initialized_ => initStep > Len(InitSteps)

\* C34 as stated: Init creates in the stated order; every slot's command
\* pool, command buffer, fence and semaphores come before the render pass
\* and the framebuffers, which come before the descriptor pool and layouts,
\* then the pipeline, the assets and the scene.
C34_InitOrder ==
  InOrder(DeviceStages \o
          << FrameCommandObjects \cup FrameSyncObjects, RenderPassObjects,
             FramebufferObjects, DescriptorObjects, PipelineObjects,
             AssetObjects >>)

\* C34, amended: the command pools and command buffers come before the
\* render pass and the framebuffers; the fences and semaphores come after
\* the framebuffers and before the descriptor pool and layouts; the rest as
\* stated.
C34_InitOrder_Amended ==
  InOrder(DeviceStages \o
          << FrameCommandObjects, RenderPassObjects, FramebufferObjects,
             FrameSyncObjects, DescriptorObjects, PipelineObjects,
             AssetObjects >>)

\* Init has made every creation call, each of them with success
C34_Witness ==
  /\ pc = "Init"
  /\ initStep > Len(InitSteps)
  /\ failedSteps = {}
  /\ FrameSyncObjects \cup FramebufferObjects \cup AssetObjects
       \subseteq live

\* the device reports every required device extension
SupportsRequired(dev) ==
  \A j \in 1 .. Len(kDeviceExtensions) :
    \E k \in 1 .. Len(dev.extensions) :
      dev.extensions[k] = kDeviceExtensions[j]

Qualifies(dev) ==
  dev.queue_family /\ dev.features /\ SupportsRequired(dev)

\* C35: the device SelectDevice returns supports every required device
\* extension, has the queue family and the features; when no device
\* qualifies, SelectDevice returns none and Init returns false.
C35_SelectedSupportsExtensions ==
  selectPc # "call" =>
    /\ maybe_selected_device # NoDevice =>
         /\ selectPc = "selected"
         /\ Qualifies(physical_devices[maybe_selected_device + 1])
    /\ (\A i \in 1 .. Len(physical_devices) :
          ~Qualifies(physical_devices[i]))
         => maybe_selected_device = NoDevice /\ selectPc = "return false"

\* C36: for a model of one or more meshes, every render object InitScene
\* places references a Mesh and a Material that are not null, and the
\* assertions of the draw traversal hold.
C36_SceneObjectsNotNull ==
  shiba_model_ >= 1 =>
    /\ \A k \in 1 .. Len(sceneObjects) :
         /\ sceneObjects[k].mesh # "nullptr"
         /\ sceneObjects[k].material # "nullptr"
    /\ drawAsserts \in {"none", "hold"}

\* C37: when UploadMesh returns, each staging buffer it created is at least
\* as large as the bytes written into it and as the bytes the copy command
\* reads from it, and is destroyed.
C37_StagingBuffersFit ==
  meshPc \in {"true", "false"} =>
    \A k \in 1 .. Len(stagingBuffers) :
      /\ stagingBuffers[k].written <= stagingBuffers[k].size
      /\ stagingBuffers[k].copied <= stagingBuffers[k].size
      /\ stagingBuffers[k].destroyed

\* the acquisitions requested so far
AcquireOps == {i \in 1 .. Len(gpuOps) : gpuOps[i].kind = "acquire"}

\* the image of acquisition i has been presented since
PresentedAfter(i) ==
  \E k \in i + 1 .. Len(gpuOps) :
    /\ gpuOps[k].kind = "present"
    /\ gpuOps[k].image = gpuOps[i].image
    /\ gpuOps[k].state = "done"

\* Draw d acquired an image that has not been presented
ImageHeld(d) ==
  \E i \in AcquireOps : gpuOps[i].draw = d /\ ~PresentedAfter(i)

\* between two acquisitions with the same semaphore lies the submission
\* whose wait consumes the signal of the first
SignalConsumedBeforeAcquire ==
  \A i, j \in AcquireOps :
    (i < j /\ gpuOps[i].signals = gpuOps[j].signals) =>
      \E k \in i + 1 .. j - 1 :
        /\ gpuOps[k].kind = "submit"
        /\ gpuOps[k].draw = gpuOps[i].draw
        /\ gpuOps[k].waits = gpuOps[i].signals

\* C38: over any sequence of Draws, whatever fails, every image a Draw
\* acquired is presented in the end, by that Draw or a later one, and a
\* slot's present semaphore is never given to an acquisition while the
\* signal of an earlier acquisition on it is unconsumed by a submission.
C38_AcquiredImagesPresented ==
  /\ [] SignalConsumedBeforeAcquire
  /\ \A d \in 1 .. MaxSyncDraws : ImageHeld(d) ~> ~ImageHeld(d)

\* how often the action occurs in the sequence
TimesIn(seq, action) ==
  Cardinality({k \in 1 .. Len(seq) : seq[k] = action})

\* how often the action is pending in a stack
TimesPending(action) ==
  LET RECURSIVE sum(_)
      sum(s) == IF s = 0 THEN 0
                ELSE TimesIn(taskStacks[s].tasks_, action) + sum(s - 1)
  IN sum(MaxStacks)

\* C39: over the lifetime of TaskStack objects, moves included, every
\* action pushed is invoked exactly once: at any time it has been invoked
\* once or is pending in one stack, never both and never neither; a
\* moved-from stack holds nothing, and no stack is destroyed with an action
\* it has not run.
C39_EveryActionOnce ==
  \A action \in 1 .. movePushed :
    /\ TimesIn(moveInvoked, action) + TimesPending(action) = 1
    /\ \A s \in StackObjects :
         taskStacks[s].life # "alive" => taskStacks[s].tasks_ = <<>>

\* C40: for all surface limits, maxImageCount = 0 (no upper limit)
\* included, the image count Init requests is at least minImageCount, and
\* at most maxImageCount whenever maxImageCount > 0.
C40_ImageCountWithinLimits ==
  imageCountPc = "requested" =>
    /\ image_count >= minImageCount
    /\ maxImageCount > 0 => image_count <= maxImageCount

====
